---- MODULE Spec2Model ----
(***************************************************************************)
(* State-machine model of the oxbitnet generation session:                *)
(* BitNet::generate / generate_chat / generate_from_ids / dispose         *)
(* (oxbitnet/src/lib.rs), BitNetModel::forward / read_logits /            *)
(* reset_kv_cache (oxbitnet/src/nn/model.rs) and the per-layer KV cache   *)
(* (oxbitnet/src/nn/attention.rs).                                        *)
(*                                                                         *)
(* The token stream returned by generate_from_ids is a lazy coroutine:    *)
(* its body only runs while the consumer polls it, it suspends at the     *)
(* read_logits await and at every yield, and it can be dropped at any     *)
(* suspension point.  The exclusive borrow of the BitNet held by the      *)
(* stream means generate and dispose can only be called when no stream    *)
(* is alive (pc = "idle").                                                 *)
(***************************************************************************)
EXTENDS Integers, Sequences, FiniteSets, TLC

\* ---------------------------------------------------------------- bounds
\* number of transformer layers of the loaded model (config.num_hidden_layers)
NumLayers == 2
\* token ids the sampler can return are 0 .. VocabSize - 1
VocabSize == 3
\* largest max_tokens option explored
MaxTokens == 3
\* largest repeat_last_n option explored
MaxRepeatLastN == 2
\* short prompts have 1 .. MaxPrompt ids
MaxPrompt == 2

\* ------------------------------------------------------ program constants
\* max_seq_len handed to BitNetModel::build by BitNet::load
max_seq_len == 4096
\* eos id used when the metadata has no tokenizer.ggml.eos_token_id
default_eos_id == 2

\* Option::None for the optional stop ids (real ids are >= 0)
None == -1

Layers == 1..NumLayers
TokenIds == 0..(VocabSize - 1)

\* Tokenizer::decode_one is a function of the id (the tokenizer is immutable):
\* it returns Ok(non-empty text), Ok("") or Err.  Two vocabularies are
\* explored: one that decodes every id to text, one with all three results.
DecodeTables ==
    { [t \in TokenIds |-> "text"],
      [t \in TokenIds |-> IF t % 3 = 0 THEN "err"
                          ELSE IF t % 3 = 1 THEN "empty" ELSE "text"] }

\* lengths of the id vector produced by a successful encode /
\* apply_chat_template: always at least the BOS id; a prompt that fills the
\* whole context is included
PromptLens == (1..MaxPrompt) \cup {max_seq_len}

VARIABLES
    kv_caches,      \* [Layers -> [seq_len, max_seq_len]]   BitNetModel.kv_caches
    bg_entries,     \* [Layers -> set of cached bind groups] BgCache.entries
    eos_id, eot_id, im_end_id,   \* Tokenizer stop ids
    decode_table,   \* result kind of Tokenizer::decode_one for every id
    pc,             \* position of the stream coroutine ("idle": no stream)
    input_len,      \* input_ids.len()
    max_tokens, repeat_last_n,   \* GenerateOptions captured by the stream
    iter,           \* iterations of `for _ in 0..max_tokens` started so far
    recent_tokens,  \* Vec<u32> recent_tokens
    fw_n, fw_i,     \* forward in progress: token count n, next layer index
    fw_entry,       \* seq_len of every layer when the running forward was entered
    n_forwards,     \* forwards submitted by this generation
    n_readbacks,    \* read_logits calls of this generation that returned Ok
    sampled,        \* ids returned by sample_token in this generation, in order
    last_window,    \* the window handed to the latest sample_token call
    emitted,        \* items yielded by the stream, as <<id, text kind>>
    end_cause,      \* why the stream body finished
    reset_from,     \* layer-1 seq_len overwritten by the generation's reset
                    \* (kept until the prefill forward is entered)
    dispose_called, \* dispose() has been called on this BitNet
    smp,            \* the sample_token call being followed (sampling.rs)
    gg,             \* the load_gguf call being followed (gguf.rs, loader.rs)
    ws,             \* a WeightStore and its last call (model/weights.rs)
    pm,             \* a PipelineManager and its calls (gpu/pipeline.rs)
    bm              \* a BitNetModel::build call and its forwards (nn/model.rs)

vars == <<kv_caches, bg_entries, eos_id, eot_id, im_end_id, decode_table,
          pc, input_len,
          max_tokens, repeat_last_n, iter, recent_tokens, fw_n, fw_i,
          fw_entry, n_forwards, n_readbacks, sampled, last_window, emitted,
          end_cause, reset_from, dispose_called, smp, gg, ws, pm, bm>>

tok_vars == <<eos_id, eot_id, im_end_id, decode_table>>
opt_vars == <<input_len, max_tokens, repeat_last_n>>
fw_vars == <<fw_n, fw_i, fw_entry>>
lib_vars == <<smp, gg, ws, pm, bm>>
obj_vars == <<ws, pm, bm>>

\* no sample_token call / no load_gguf call is being followed
NoSample == [pc |-> "none"]
NoLoad == [pc |-> "none"]
NoStore == [pc |-> "none"]
NoPipelines == [pc |-> "none"]
NoBuild == [pc |-> "none"]
IdleObjects == ws = NoStore /\ pm = NoPipelines /\ bm = NoBuild

\* ------------------------------------------------------------ helpers
Min(a, b) == IF a < b THEN a ELSE b

\* usize::saturating_sub
saturating_sub(a, b) == IF a > b THEN a - b ELSE 0

\* &v[start..]
SliceFrom(v, start) == SubSeq(v, start + 1, Len(v))

SeqLens == [i \in Layers |-> kv_caches[i].seq_len]

\* create_kv_cache: seq_len 0, capacity max_seq_len
create_kv_cache(cap) == [seq_len |-> 0, max_seq_len |-> cap]

\* variant: only the first layer's cache is reset
ResetSeqLens_first_only(caches) ==
    [i \in Layers |-> IF i = 1 THEN [caches[i] EXCEPT !.seq_len = 0] ELSE caches[i]]

\* BitNetModel::reset_kv_cache: every cache's seq_len := 0
ResetSeqLens(caches) == [i \in Layers |-> [caches[i] EXCEPT !.seq_len = 0]]

\* BitNetModel::reset_kv_cache: every layer's (and the LM head's) bind-group
\* cache is cleared
ClearBgCaches(bg) == [i \in Layers |-> {}]

\* variant: only eos_id stops the generation
IsStop_eos_only(t, eos, eot, im_end) == t = eos

\* the stop test of the generation loop
IsStop(t, eos, eot, im_end) == t = eos \/ eot = t \/ im_end = t

\* variant: the whole history is handed over whatever repeat_last_n is
Window_unsliced(recent, rln) == recent

\* the repetition-penalty window of the generation loop
Window(recent, rln) ==
    IF rln > 0
    THEN SliceFrom(recent, saturating_sub(Len(recent), rln))
    ELSE recent

\* ------------------------------------------------------------ initial state
\* State after BitNet::load: caches created empty, bind-group caches new,
\* stop ids read from the tokenizer, no stream alive.
Init ==
    /\ kv_caches = [i \in Layers |-> create_kv_cache(max_seq_len)]
    /\ bg_entries = [i \in Layers |-> {}]
    /\ eos_id = default_eos_id
    /\ eot_id \in {None, 1}
    /\ im_end_id \in {None, 0}
    /\ decode_table \in DecodeTables
    /\ pc = "idle"
    /\ input_len = 0
    /\ max_tokens = 0
    /\ repeat_last_n = 0
    /\ iter = 0
    /\ recent_tokens = <<>>
    /\ fw_n = 0
    /\ fw_i = 0
    /\ fw_entry = [i \in Layers |-> 0]
    /\ n_forwards = 0
    /\ n_readbacks = 0
    /\ sampled = <<>>
    /\ last_window = <<>>
    /\ emitted = <<>>
    /\ end_cause = "none"
    /\ reset_from = 0
    /\ dispose_called = FALSE
    /\ smp = NoSample
    /\ gg = NoLoad
    /\ IdleObjects

\* locals of a stream that does not exist (or has just been created)
FreshLocals ==
    /\ iter' = 0
    /\ recent_tokens' = <<>>
    /\ fw_n' = 0
    /\ fw_i' = 0
    /\ fw_entry' = [i \in Layers |-> 0]
    /\ n_forwards' = 0
    /\ n_readbacks' = 0
    /\ sampled' = <<>>
    /\ last_window' = <<>>
    /\ emitted' = <<>>
    /\ end_cause' = "none"
    /\ reset_from' = 0

\* ------------------------------------------------------------ session API
\* generate_from_ids: capture options and stop ids, return the (unpolled) stream
generate_from_ids(n, opt_max_tokens, opt_repeat_last_n) ==
    /\ pc = "idle"
    /\ pc' = "start"
    /\ input_len' = n
    /\ max_tokens' = opt_max_tokens
    /\ repeat_last_n' = opt_repeat_last_n
    /\ FreshLocals
    /\ UNCHANGED <<kv_caches, bg_entries, tok_vars, lib_vars, dispose_called>>

\* BitNet::generate: encode(prompt, true).unwrap_or_default(); an encode
\* error gives the empty id vector
Generate ==
    \E n \in PromptLens \cup {0}, mt \in 0..MaxTokens, rln \in 0..MaxRepeatLastN :
        generate_from_ids(n, mt, rln)

\* BitNet::generate_chat: apply_chat_template(messages).unwrap_or_default()
GenerateChat ==
    \E n \in PromptLens \cup {0}, mt \in 0..MaxTokens, rln \in 0..MaxRepeatLastN :
        generate_from_ids(n, mt, rln)

\* BitNet::dispose: self.model.reset_kv_cache()
Dispose ==
    /\ pc = "idle"
    /\ kv_caches' = ResetSeqLens(kv_caches)
    /\ bg_entries' = ClearBgCaches(bg_entries)
    /\ dispose_called' = TRUE
    /\ UNCHANGED <<tok_vars, lib_vars, pc, opt_vars, iter, recent_tokens, fw_vars,
                   n_forwards, n_readbacks, sampled, last_window, emitted,
                   end_cause, reset_from>>

\* the consumer drops the stream at a suspension point (before the first
\* poll, while read_logits is pending, after an item) or after it ended
DropStream ==
    /\ pc \in {"start", "read", "yielded", "done"}
    /\ pc' = "idle"
    /\ input_len' = 0
    /\ max_tokens' = 0
    /\ repeat_last_n' = 0
    /\ FreshLocals
    /\ UNCHANGED <<kv_caches, bg_entries, tok_vars, lib_vars, dispose_called>>

\* ------------------------------------------------------------ stream body
\* first poll: self.model.reset_kv_cache()
StreamReset ==
    /\ pc = "start"
    /\ reset_from' = kv_caches[1].seq_len
    /\ kv_caches' = ResetSeqLens(kv_caches)
    /\ bg_entries' = ClearBgCaches(bg_entries)
    /\ pc' = "prefill"
    /\ UNCHANGED <<tok_vars, lib_vars, opt_vars, iter, recent_tokens, fw_vars,
                   n_forwards, n_readbacks, sampled, last_window, emitted,
                   end_cause, dispose_called>>

\* BitNetModel::forward entry: n = token_ids.len(), embedding lookup
ForwardEnter(n) ==
    /\ fw_n' = n
    /\ fw_i' = 1
    /\ fw_entry' = SeqLens
    /\ reset_from' = 0
    /\ pc' = "layers"
    /\ UNCHANGED <<kv_caches, bg_entries, tok_vars, lib_vars, opt_vars, iter,
                   recent_tokens, n_forwards, n_readbacks, sampled,
                   last_window, emitted, end_cause, dispose_called>>

\* self.model.forward(&input_ids)
PrefillForward ==
    /\ pc = "prefill"
    /\ ForwardEnter(input_len)

\* self.model.forward(&[next_token])
DecodeForward ==
    /\ pc = "decode"
    /\ ForwardEnter(1)

\* variant: the cache advances by one position whatever n is
AdvanceLayer_by_one(caches, i, n) ==
    [caches EXCEPT ![i].seq_len = caches[i].seq_len + 1]

\* variant: every cache is advanced together, once the last layer has run
AdvanceLayer_deferred(caches, i, n) ==
    IF i = NumLayers
    THEN [j \in Layers |-> [caches[j] EXCEPT !.seq_len = caches[j].seq_len + n]]
    ELSE caches

\* the seq_len update of one iteration of the layer loop
AdvanceLayer(caches, i, n) ==
    [caches EXCEPT ![i].seq_len = caches[i].seq_len + n]

\* one iteration of `for i in 0..self.layers.len()`: run layer i against
\* kv_caches[i], then kv_caches[i].seq_len += n
ForwardLayer ==
    /\ pc = "layers"
    /\ fw_i <= NumLayers
    /\ kv_caches' = AdvanceLayer(kv_caches, fw_i, fw_n)
    /\ fw_i' = fw_i + 1
    /\ UNCHANGED <<bg_entries, tok_vars, lib_vars, pc, opt_vars, iter, recent_tokens,
                   fw_n, fw_entry, n_forwards, n_readbacks, sampled,
                   last_window, emitted, end_cause, reset_from, dispose_called>>

\* after the layer loop: final norm, LM head, queue.submit, return logits
ForwardSubmit ==
    /\ pc = "layers"
    /\ fw_i > NumLayers
    /\ n_forwards' = n_forwards + 1
    /\ pc' = "loop"
    /\ UNCHANGED <<kv_caches, bg_entries, tok_vars, lib_vars, opt_vars, iter,
                   recent_tokens, fw_vars, n_readbacks, sampled, last_window,
                   emitted, end_cause, reset_from, dispose_called>>

\* variant: inclusive range 0..=max_tokens
LoopContinues_inclusive(it, mt) == it <= mt

\* the guard of `for _ in 0..max_tokens`
LoopContinues(it, mt) == it < mt

\* next iteration of the loop
LoopNext ==
    /\ pc = "loop"
    /\ LoopContinues(iter, max_tokens)
    /\ iter' = iter + 1
    /\ pc' = "read"
    /\ UNCHANGED <<kv_caches, bg_entries, tok_vars, lib_vars, opt_vars, recent_tokens,
                   fw_vars, n_forwards, n_readbacks, sampled, last_window,
                   emitted, end_cause, reset_from, dispose_called>>

\* the range is exhausted: the stream body returns
LoopExit ==
    /\ pc = "loop"
    /\ ~LoopContinues(iter, max_tokens)
    /\ pc' = "done"
    /\ end_cause' = "max_tokens"
    /\ UNCHANGED <<kv_caches, bg_entries, tok_vars, lib_vars, opt_vars, iter,
                   recent_tokens, fw_vars, n_forwards, n_readbacks, sampled,
                   last_window, emitted, reset_from, dispose_called>>

\* read_logits(&logits).await returned Ok(data)
ReadLogitsOk ==
    /\ pc = "read"
    /\ n_readbacks' = n_readbacks + 1
    /\ pc' = "sample"
    /\ UNCHANGED <<kv_caches, bg_entries, tok_vars, lib_vars, opt_vars, iter,
                   recent_tokens, fw_vars, n_forwards, sampled, last_window,
                   emitted, end_cause, reset_from, dispose_called>>

\* variant: the error is ignored and the loop goes on to the decode forward
AfterReadError_ignored == "decode"

\* where the loop goes when read_logits returned Err(_): `break`
AfterReadError == "done"

\* read_logits(&logits).await returned Err(BufferMap)
ReadLogitsErr ==
    /\ pc = "read"
    /\ pc' = AfterReadError
    /\ end_cause' = "readback_error"
    /\ UNCHANGED <<kv_caches, bg_entries, tok_vars, lib_vars, opt_vars, iter,
                   recent_tokens, fw_vars, n_forwards, n_readbacks, sampled,
                   last_window, emitted, reset_from, dispose_called>>

\* window selection, sample_token, stop test, recent_tokens.push
Sample ==
    /\ pc = "sample"
    /\ \E next_token \in TokenIds :
        /\ last_window' = Window(recent_tokens, repeat_last_n)
        /\ sampled' = Append(sampled, next_token)
        /\ IF IsStop(next_token, eos_id, eot_id, im_end_id)
           THEN /\ pc' = "done"
                /\ end_cause' = "stop"
                /\ UNCHANGED recent_tokens
           ELSE /\ pc' = "decode_one"
                /\ recent_tokens' = Append(recent_tokens, next_token)
                /\ UNCHANGED end_cause
    /\ UNCHANGED <<kv_caches, bg_entries, tok_vars, lib_vars, opt_vars, iter, fw_vars,
                   n_forwards, n_readbacks, emitted, reset_from, dispose_called>>

\* Tokenizer::decode_one(id)
decode_one(id) == decode_table[id]

\* decode_one(next_token) returned Ok(text): the stream yields it and suspends
DecodeOneOk ==
    /\ pc = "decode_one"
    /\ LET next_token == recent_tokens[Len(recent_tokens)]
       IN /\ decode_one(next_token) # "err"
          /\ emitted' = Append(emitted, <<next_token, decode_one(next_token)>>)
    /\ pc' = "yielded"
    /\ UNCHANGED <<kv_caches, bg_entries, tok_vars, lib_vars, opt_vars, iter,
                   recent_tokens, fw_vars, n_forwards, n_readbacks, sampled,
                   last_window, end_cause, reset_from, dispose_called>>

\* decode_one(next_token) returned Err: nothing is yielded
DecodeOneErr ==
    /\ pc = "decode_one"
    /\ decode_one(recent_tokens[Len(recent_tokens)]) = "err"
    /\ pc' = "decode"
    /\ UNCHANGED <<kv_caches, bg_entries, tok_vars, lib_vars, opt_vars, iter,
                   recent_tokens, fw_vars, n_forwards, n_readbacks, sampled,
                   last_window, emitted, end_cause, reset_from, dispose_called>>

\* the consumer polls again after an item: the body resumes after the yield
Resume ==
    /\ pc = "yielded"
    /\ pc' = "decode"
    /\ UNCHANGED <<kv_caches, bg_entries, tok_vars, lib_vars, opt_vars, iter,
                   recent_tokens, fw_vars, n_forwards, n_readbacks, sampled,
                   last_window, emitted, end_cause, reset_from, dispose_called>>

Next ==
    \/ Generate
    \/ GenerateChat
    \/ Dispose
    \/ DropStream
    \/ StreamReset
    \/ PrefillForward
    \/ DecodeForward
    \/ ForwardLayer
    \/ ForwardSubmit
    \/ LoopNext
    \/ LoopExit
    \/ ReadLogitsOk
    \/ ReadLogitsErr
    \/ Sample
    \/ DecodeOneOk
    \/ DecodeOneErr
    \/ Resume

Spec == Init /\ [][Next]_vars

\* ------------------------------------------------------------------
\* sampling.rs: f32 arithmetic on a fixed-point grid.  A finite f32 is an
\* integer number of 1/Unit steps in -FMax..FMax; results are rounded toward
\* zero and overflow to the infinities as in IEEE 754.  NAN compares false
\* with everything.
MaxVocab == 3
Unit == 2
FMax == 16 * Unit
PINF == 1000000
NINF == 0 - PINF
NAN == 2000000
ExpBits == 8
RDen == 4

IsNan(x) == x = NAN
IsInf(x) == x = PINF \/ x = NINF
Sgn(x) == IF x > 0 THEN 1 ELSE IF x < 0 THEN -1 ELSE 0
Abs(x) == IF x < 0 THEN 0 - x ELSE x
TruncDiv(a, b) == Sgn(a) * Sgn(b) * (Abs(a) \div Abs(b))
Norm(x) == IF x > FMax THEN PINF ELSE IF x < 0 - FMax THEN NINF ELSE x
SignedInf(sg) == IF sg > 0 THEN PINF ELSE NINF

\* f32 comparisons: false when either side is NaN
FGt(a, b) == ~IsNan(a) /\ ~IsNan(b) /\ a > b
FLt(a, b) == ~IsNan(a) /\ ~IsNan(b) /\ a < b

\* f32 `a * b`
FMul(a, b) ==
    IF IsNan(a) \/ IsNan(b) THEN NAN
    ELSE IF IsInf(a) \/ IsInf(b)
         THEN IF a = 0 \/ b = 0 THEN NAN ELSE SignedInf(Sgn(a) * Sgn(b))
         ELSE Norm(TruncDiv(a * b, Unit))

\* f32 `a / b` (a zero divisor is +0.0)
FDiv(a, b) ==
    IF IsNan(a) \/ IsNan(b) THEN NAN
    ELSE IF IsInf(a) THEN IF IsInf(b) THEN NAN
                          ELSE SignedInf(Sgn(a) * (IF b < 0 THEN -1 ELSE 1))
    ELSE IF IsInf(b) THEN 0
    ELSE IF b = 0 THEN IF a = 0 THEN NAN ELSE SignedInf(Sgn(a))
    ELSE Norm(TruncDiv(a * Unit, b))

\* f32 `a - b`
FSub(a, b) ==
    IF IsNan(a) \/ IsNan(b) THEN NAN
    ELSE IF IsInf(a) THEN IF a = b THEN NAN ELSE a
    ELSE IF IsInf(b) THEN 0 - b
    ELSE Norm(a - b)

\* f32::max: a NaN operand is ignored
F32Max(a, b) ==
    IF IsNan(a) THEN b ELSE IF IsNan(b) THEN a ELSE IF a > b THEN a ELSE b

\* f32::exp of d <= 0 as a weight: 2^ExpBits for 0, halved for each grid
\* step below, underflowing to 0; exp(-inf) = 0, exp(NaN) = NaN
FExp(d) ==
    IF IsNan(d) THEN NAN
    ELSE IF d = NINF THEN 0
    ELSE IF d = PINF THEN PINF
    ELSE IF d < 0 - ExpBits THEN 0
    ELSE 2 ^ (ExpBits + d)

\* `sum += w` on weights (no weight sum overflows here)
WAdd(a, b) ==
    IF IsNan(a) \/ IsNan(b) THEN NAN
    ELSE IF a = PINF \/ b = PINF THEN PINF
    ELSE a + b

\* `cumsum >= variate * sum` for the variate k / RDen
ReachesVariate(cumsum, k, sum) ==
    IF IsNan(cumsum) \/ IsNan(sum) THEN FALSE
    ELSE IF sum = PINF THEN k > 0 /\ cumsum = PINF
    ELSE IF cumsum = PINF THEN TRUE
    ELSE cumsum * RDen >= k * sum

\* ------------------------------------------------------------------
\* sampling.rs: sample_token.  logits is a function on 0..vocab_size-1.
LogitValues == {NINF, 0 - Unit, Unit, 2 * Unit, 3 * Unit}
LogitVectors == UNION {[0..(V - 1) -> LogitValues] : V \in 1..MaxVocab}
Penalties == {Unit, 2 * Unit}
RecentWindows == {<<>>, <<2>>, <<0, 0>>, <<MaxVocab>>}
Temperatures == {0, Unit \div 2, Unit, 2 * Unit}
Variates == 0..(RDen - 1)

vocab_size(logits) == Cardinality(DOMAIN logits)

\* one iteration of `for &token_id in recent_tokens`
PenalizeOne_always_divide(logits, idx, p) ==
    IF idx \in DOMAIN logits
    THEN [logits EXCEPT ![idx] = FDiv(@, p)]
    ELSE logits

PenalizeOne(logits, idx, p) ==
    IF idx \in DOMAIN logits
    THEN [logits EXCEPT ![idx] = IF FGt(@, 0) THEN FDiv(@, p) ELSE FMul(@, p)]
    ELSE logits

RECURSIVE PenaltyLoop(_, _, _)
PenaltyLoop(logits, p, recent) ==
    IF recent = <<>> THEN logits
    ELSE PenaltyLoop(PenalizeOne(logits, Head(recent), p), p, Tail(recent))

repetition_penalty(logits, p, recent) ==
    IF p # Unit /\ recent # <<>> THEN PenaltyLoop(logits, p, recent) ELSE logits

temperature_scale(logits, t) ==
    IF t # Unit
    THEN LET inv_temp == FDiv(Unit, t)
         IN  [i \in DOMAIN logits |-> FMul(logits[i], inv_temp)]
    ELSE logits

RECURSIVE sift_down(_, _, _, _)
sift_down(heap, i, n, values) ==
    LET l == 2 * i + 1
        r == 2 * i + 2
        m1 == IF l < n /\ FLt(values[heap[l]], values[heap[i]]) THEN l ELSE i
        min == IF r < n /\ FLt(values[heap[r]], values[heap[m1]]) THEN r ELSE m1
    IN  IF min = i THEN heap
        ELSE sift_down([heap EXCEPT ![i] = heap[min], ![min] = heap[i]],
                       min, n, values)

\* `for i in (0..(top_k / 2)).rev()`
RECURSIVE BuildHeap(_, _, _, _)
BuildHeap(heap, i, n, values) ==
    IF i < 0 THEN heap
    ELSE BuildHeap(sift_down(heap, i, n, values), i - 1, n, values)

\* `for i in top_k..vocab_size`
RECURSIVE ProcessRemaining(_, _, _, _)
ProcessRemaining(heap, i, n, values) ==
    IF i >= vocab_size(values) THEN heap
    ELSE ProcessRemaining(
             IF FGt(values[i], values[heap[0]])
             THEN sift_down([heap EXCEPT ![0] = i], 0, n, values)
             ELSE heap,
             i + 1, n, values)

top_k_filter(logits, top_k) ==
    IF top_k > 0 /\ top_k < vocab_size(logits)
    THEN LET heap0 == [j \in 0..(top_k - 1) |-> j]
             heap1 == BuildHeap(heap0, (top_k \div 2) - 1, top_k, logits)
             heap == ProcessRemaining(heap1, top_k, top_k, logits)
             threshold == logits[heap[0]]
         IN  [i \in DOMAIN logits |->
                 IF FLt(logits[i], threshold) THEN NINF ELSE logits[i]]
    ELSE logits

\* `logits.iter().cloned().fold(f32::NEG_INFINITY, f32::max)`
RECURSIVE MaxFold(_, _, _)
MaxFold(logits, i, acc) ==
    IF i >= vocab_size(logits) THEN acc
    ELSE MaxFold(logits, i + 1, F32Max(acc, logits[i]))

softmax_weights(logits) ==
    LET max_val == MaxFold(logits, 0, NINF)
    IN  [i \in DOMAIN logits |-> FExp(FSub(logits[i], max_val))]

RECURSIVE SumFold(_, _, _)
SumFold(w, i, acc) ==
    IF i >= vocab_size(w) THEN acc ELSE SumFold(w, i + 1, WAdd(acc, w[i]))

\* the value returned after the sampling loop
FallThrough_past_end(logits) == vocab_size(logits)

FallThrough(logits) == vocab_size(logits) - 1

\* `for (i, &logit) in logits.iter().enumerate()` with variate k / RDen
RECURSIVE PickLoop(_, _, _, _, _)
PickLoop(w, i, cumsum, k, sum) ==
    IF i >= vocab_size(w) THEN FallThrough(w)
    ELSE LET c == WAdd(cumsum, w[i])
         IN  IF ReachesVariate(c, k, sum) THEN i
             ELSE PickLoop(w, i + 1, c, k, sum)

\* everything that belongs to the generation session
session_vars == <<kv_caches, bg_entries, tok_vars, pc, opt_vars, iter,
                  recent_tokens, fw_vars, n_forwards, n_readbacks, sampled,
                  last_window, emitted, end_cause, reset_from, dispose_called>>

\* a loaded model on which no generation has been started
IdleSession ==
    /\ kv_caches = [i \in Layers |-> create_kv_cache(max_seq_len)]
    /\ bg_entries = [i \in Layers |-> {}]
    /\ eos_id = default_eos_id
    /\ eot_id = None
    /\ im_end_id = None
    /\ decode_table = [t \in TokenIds |-> "text"]
    /\ pc = "idle"
    /\ input_len = 0
    /\ max_tokens = 0
    /\ repeat_last_n = 0
    /\ iter = 0
    /\ recent_tokens = <<>>
    /\ fw_n = 0
    /\ fw_i = 0
    /\ fw_entry = [i \in Layers |-> 0]
    /\ n_forwards = 0
    /\ n_readbacks = 0
    /\ sampled = <<>>
    /\ last_window = <<>>
    /\ emitted = <<>>
    /\ end_cause = "none"
    /\ reset_from = 0
    /\ dispose_called = FALSE

\* entry of sample_token(logits, ..): nothing has been applied yet
SampleCall(l) ==
    [pc |-> "penalty", logits |-> l, orig |-> l,
     repeat_penalty |-> None, recent |-> <<>>, temperature |-> None,
     top_k |-> None, scaled |-> l, filtered |-> l,
     sum |-> None, variate |-> None, result |-> None]

InitSampler ==
    /\ IdleSession
    /\ IdleObjects
    /\ gg = NoLoad
    /\ smp \in {SampleCall(l) : l \in LogitVectors}

\* lines 13-25
SamplePenalty ==
    /\ smp.pc = "penalty"
    /\ \E p \in Penalties, recent \in RecentWindows :
          smp' = [smp EXCEPT !.pc = "temperature",
                             !.repeat_penalty = p,
                             !.recent = recent,
                             !.logits = repetition_penalty(smp.logits, p, recent)]
    /\ UNCHANGED <<session_vars, gg, obj_vars>>

\* lines 27-33
SampleTemperature ==
    /\ smp.pc = "temperature"
    /\ \E t \in Temperatures :
          LET l == temperature_scale(smp.logits, t)
          IN  smp' = [smp EXCEPT !.pc = "top_k", !.temperature = t,
                                 !.logits = l, !.scaled = l]
    /\ UNCHANGED <<session_vars, gg, obj_vars>>

\* lines 35-58
SampleTopK ==
    /\ smp.pc = "top_k"
    /\ \E k \in 0..MaxVocab :
          LET l == top_k_filter(smp.logits, k)
          IN  smp' = [smp EXCEPT !.pc = "softmax", !.top_k = k,
                                 !.logits = l, !.filtered = l]
    /\ UNCHANGED <<session_vars, gg, obj_vars>>

\* lines 60-66: the logits are overwritten by their softmax weights
SampleSoftmax ==
    /\ smp.pc = "softmax"
    /\ LET w == softmax_weights(smp.logits)
       IN  smp' = [smp EXCEPT !.pc = "pick", !.logits = w,
                              !.sum = SumFold(w, 0, 0)]
    /\ UNCHANGED <<session_vars, gg, obj_vars>>

\* lines 68-78
SamplePick ==
    /\ smp.pc = "pick"
    /\ \E k \in Variates :
          smp' = [smp EXCEPT !.pc = "done", !.variate = k,
                             !.result = PickLoop(smp.logits, 0, 0, k, smp.sum)]
    /\ UNCHANGED <<session_vars, gg, obj_vars>>

NextSampler ==
    \/ SamplePenalty
    \/ SampleTemperature
    \/ SampleTopK
    \/ SampleSoftmax
    \/ SamplePick

SpecSampler == InitSampler /\ [][NextSampler]_vars

\* ------------------------------------------------------------------
\* gguf.rs: the container parser.  A file is a sequence of bytes; self.offset
\* counts bytes consumed, so byte k of the slice is data[k + 1].
\* A u64 / usize value v < 2^31 is the integer v, and a value 2^64 - k
\* (k <= 2^31) is the integer -k, so that wrapping addition is integer
\* addition; every other value is U64Mid, which is larger than any file and
\* too small to wrap an offset.
GGUF_MAGIC == 1179993927
META_UINT8 == 0
META_INT8 == 1
META_UINT16 == 2
META_INT16 == 3
META_UINT32 == 4
META_INT32 == 5
META_FLOAT32 == 6
META_BOOL == 7
META_STRING == 8
META_ARRAY == 9
META_UINT64 == 10
META_INT64 == 11
META_FLOAT64 == 12
GGML_TYPE_F32 == 0
GGML_TYPE_F16 == 1
GGML_TYPE_I8 == 16
GGML_TYPE_I16 == 17
GGML_TYPE_I32 == 18
GGML_TYPE_I64 == 27
GGML_TYPE_F64 == 28
GGML_TYPE_BF16 == 30
GGML_TYPE_TQ1_0 == 34
GGML_TYPE_TQ2_0 == 35
GGML_TYPE_I2_S == 36
DefaultAlignment == 32
U64Mid == 0 - 2147483647

Bytes(data, offset, n) == SubSeq(data, offset + 1, offset + n)

\* uN::from_le_bytes
U16Le(b) == b[1] + 256 * b[2]
U32Le(b) == b[1] + 256 * b[2] + 65536 * b[3] + 16777216 * b[4]
U64Le(b) ==
    LET lo3 == b[1] + 256 * b[2] + 65536 * b[3]
        hi == {b[5], b[6], b[7], b[8]}
    IN  IF hi = {0} /\ b[4] < 128 THEN lo3 + 16777216 * b[4]
        ELSE IF hi = {255} /\ b[4] >= 128 THEN lo3 + 16777216 * (b[4] - 256)
        ELSE U64Mid

\* usize `a + n`: (wrapped value, overflowed)
UsizeAdd(a, n) ==
    [v |-> a + n,
     overflow |-> (a < 0 \/ n < 0) /\ (a + n >= 0 \/ (a < 0 /\ n < 0))]

\* usize `a > len` for a file length len
UsizeGt(a, len) == a < 0 \/ a > len

\* GgufParser::ensure(n): "ok", "eof" (the GgufParse error), or "panic" when
\* `self.offset + n` overflows in a build with overflow checks
ensure(data, offset, n, build) ==
    LET sum == UsizeAdd(offset, n)
    IN  IF sum.overflow /\ build = "debug" THEN "panic"
        ELSE IF UsizeGt(sum.v, Len(data)) THEN "eof"
        ELSE "ok"

\* outcome of a reader: res is "ok", an error kind or "panic"
Read(res, off, val) == [res |-> res, off |-> off, val |-> val]
Failed(e, off) == Read(IF e = "eof" THEN "GgufParse" ELSE e, off, None)

\* read_u8 / read_u16 / read_u32 / read_u64 (and the signed and float
\* readers, which differ only in how the same bytes are interpreted)
read_fixed(data, offset, n, build) ==
    LET e == ensure(data, offset, n, build)
    IN  IF e # "ok" THEN Failed(e, offset)
        ELSE LET b == Bytes(data, offset, n)
             IN  Read("ok", offset + n,
                      IF n = 1 THEN b[1]
                      ELSE IF n = 2 THEN U16Le(b)
                      ELSE IF n = 4 THEN U32Le(b)
                      ELSE U64Le(b))

read_u8(data, offset, build) == read_fixed(data, offset, 1, build)
read_u16(data, offset, build) == read_fixed(data, offset, 2, build)
read_u32(data, offset, build) == read_fixed(data, offset, 4, build)
read_u64(data, offset, build) == read_fixed(data, offset, 8, build)

\* std::str::from_utf8 on the strings that occur here: ASCII text, or text
\* holding the byte 255, which no UTF-8 string contains
Utf8Ok(b) == \A k \in DOMAIN b : b[k] < 128

\* read_string: a wrapped `offset + len` passes ensure in a build without
\* overflow checks and then the slice `data[offset..offset + len]` panics
read_string(data, offset, build) ==
    LET l == read_u64(data, offset, build)
    IN  IF l.res # "ok" THEN l
        ELSE LET len == l.val
                 e == ensure(data, l.off, len, build)
             IN  IF e # "ok" THEN Failed(e, l.off)
                 ELSE IF len < 0 THEN Failed("panic", l.off)
                 ELSE IF ~Utf8Ok(Bytes(data, l.off, len))
                      THEN Failed("GgufParse", l.off)
                      ELSE Read("ok", l.off + len, Bytes(data, l.off, len))

\* Vec::with_capacity(n): a capacity of 2^63 bytes or more panics
with_capacity(n) == IF n < 0 THEN "panic" ELSE "ok"

\* a GgufValue: its type tag and payload
Value(ty, v) == [ty |-> ty, v |-> v]
AsSigned(v, bits) == IF v >= 2 ^ (bits - 1) THEN v - 2 ^ bits ELSE v

RECURSIVE read_value_of_type(_, _, _, _)
RECURSIVE ReadArray(_, _, _, _, _, _)

\* `for _ in 0..len { arr.push(self.read_value_of_type(elem_type)?) }`
ReadArray(data, offset, elem_type, left, arr, build) ==
    IF left = 0 THEN Read("ok", offset, Value(META_ARRAY, arr))
    ELSE LET e == read_value_of_type(data, offset, elem_type, build)
         IN  IF e.res # "ok" THEN e
             ELSE ReadArray(data, e.off, elem_type, left - 1,
                            Append(arr, e.val), build)

read_value_of_type(data, offset, ty, build) ==
    IF ty \in {META_UINT8, META_BOOL, META_UINT16, META_UINT32, META_FLOAT32,
               META_UINT64, META_FLOAT64, META_INT8, META_INT16, META_INT32,
               META_INT64}
    THEN LET n == IF ty \in {META_UINT8, META_INT8, META_BOOL} THEN 1
                  ELSE IF ty \in {META_UINT16, META_INT16} THEN 2
                  ELSE IF ty \in {META_UINT32, META_INT32, META_FLOAT32} THEN 4
                  ELSE 8
             r == read_fixed(data, offset, n, build)
         IN  IF r.res # "ok" THEN r
             ELSE Read("ok", r.off,
                       Value(ty, IF ty = META_INT8 THEN AsSigned(r.val, 8)
                                 ELSE IF ty = META_INT16 THEN AsSigned(r.val, 16)
                                 ELSE IF ty = META_BOOL THEN Sgn(r.val)
                                 ELSE r.val))
    ELSE IF ty = META_STRING
    THEN LET r == read_string(data, offset, build)
         IN  IF r.res # "ok" THEN r ELSE Read("ok", r.off, Value(ty, r.val))
    ELSE IF ty = META_ARRAY
    THEN LET elem_type == read_u32(data, offset, build)
         IN  IF elem_type.res # "ok" THEN elem_type
             ELSE LET len == read_u64(data, elem_type.off, build)
                  IN  IF len.res # "ok" THEN len
                      ELSE IF with_capacity(len.val) # "ok"
                      THEN Failed("panic", len.off)
                      ELSE ReadArray(data, len.off, elem_type.val, len.val,
                                     <<>>, build)
    ELSE Failed("UnknownMetadataType", offset)

read_metadata_value(data, offset, build) ==
    LET value_type == read_u32(data, offset, build)
    IN  IF value_type.res # "ok" THEN value_type
        ELSE read_value_of_type(data, value_type.off, value_type.val, build)

\* GgufValue::as_u32
as_u32(value) ==
    IF value.ty \in {META_UINT32, META_INT32, META_UINT8, META_UINT16}
    THEN value.v ELSE None

\* HashMap::get on the entries in insertion order: a later insert of the
\* same key replaced the earlier one
NoValue == [ty |-> None, v |-> None]

RECURSIVE MetaGet(_, _)
MetaGet(metadata, key) ==
    IF metadata = <<>> THEN NoValue
    ELSE LET last == metadata[Len(metadata)]
         IN  IF last[1] = key THEN last[2]
             ELSE MetaGet(SubSeq(metadata, 1, Len(metadata) - 1), key)

\* usize::div_ceil for a positive divisor
div_ceil_floor(a, b) == a \div b

div_ceil(a, b) == (a + b - 1) \div b

\* "general.alignment"
KEY_ALIGNMENT == <<103, 101, 110, 101, 114, 97, 108, 46, 97, 108, 105, 103, 110, 109, 101, 110, 116>>

\* `(2..=3).contains(&version)`
VersionSupported_only_3(version) == version = 3

VersionSupported(version) == version \in 2..3

\* parse, lines 146-155: magic, version, tensor_count, metadata_kv_count
parse_header(data, build) ==
    LET magic == read_u32(data, 0, build)
        version == read_u32(data, magic.off, build)
        tensor_count == read_u64(data, version.off, build)
        metadata_kv_count == read_u64(data, tensor_count.off, build)
        fail(e) == [res |-> e, off |-> 0, version |-> None,
                    tensor_count |-> 0, metadata_kv_count |-> 0]
    IN  IF magic.res # "ok" THEN fail(magic.res)
        ELSE IF magic.val # GGUF_MAGIC THEN fail("InvalidGgufMagic")
        ELSE IF version.res # "ok" THEN fail(version.res)
        ELSE IF ~VersionSupported(version.val) THEN fail("UnsupportedGgufVersion")
        ELSE IF tensor_count.res # "ok" THEN fail(tensor_count.res)
        ELSE IF metadata_kv_count.res # "ok" THEN fail(metadata_kv_count.res)
        ELSE [res |-> "ok", off |-> metadata_kv_count.off,
              version |-> version.val, tensor_count |-> tensor_count.val,
              metadata_kv_count |-> metadata_kv_count.val]

\* `for _ in 0..n_dimensions { shape.push(self.read_u64()?) }`
RECURSIVE ReadShape(_, _, _, _, _)
ReadShape(data, offset, left, shape, build) ==
    IF left = 0 THEN Read("ok", offset, shape)
    ELSE LET d == read_u64(data, offset, build)
         IN  IF d.res # "ok" THEN d
             ELSE ReadShape(data, d.off, left - 1, Append(shape, d.val), build)

\* parse, lines 168-182: one GgufTensorInfo
read_tensor_info(data, offset, build) ==
    LET name == read_string(data, offset, build)
        n_dimensions == read_u32(data, name.off, build)
        shape == ReadShape(data, n_dimensions.off, n_dimensions.val, <<>>, build)
        tensor_type == read_u32(data, shape.off, build)
        t_offset == read_u64(data, tensor_type.off, build)
    IN  IF name.res # "ok" THEN name
        ELSE IF n_dimensions.res # "ok" THEN n_dimensions
        ELSE IF shape.res # "ok" THEN shape
        ELSE IF tensor_type.res # "ok" THEN tensor_type
        ELSE IF t_offset.res # "ok" THEN t_offset
        ELSE Read("ok", t_offset.off,
                  [name |-> name.val, n_dimensions |-> n_dimensions.val,
                   shape |-> shape.val, tensor_type |-> tensor_type.val,
                   offset |-> t_offset.val])

\* parse, lines 186-189
alignment_of(metadata) ==
    LET a == as_u32(MetaGet(metadata, KEY_ALIGNMENT))
    IN  IF a = None THEN DefaultAlignment ELSE a

\* the parser and loader state at entry of load_gguf(data, ..)
LoadCall(data, build) ==
    [pc |-> "header", build |-> build, data |-> data, offset |-> 0,
     version |-> None, tensor_count |-> 0, kv_left |-> 0, t_left |-> 0,
     metadata |-> <<>>, tensors |-> <<>>, dir_end |-> None,
     tensor_data_offset |-> None, parse_result |-> "none",
     i |-> 0, tie_word_embeddings |-> FALSE, store |-> {},
     i2s_scales |-> {}, ones |-> {},
     load_result |-> "none", returned |-> {}]

\* parse returns Err(e), or the thread panics; load_gguf passes it on (`?`)
ParseEnds(e) ==
    gg' = [gg EXCEPT !.pc = "done", !.parse_result = e, !.load_result = e]

ParseHeader ==
    /\ gg.pc = "header"
    /\ LET h == parse_header(gg.data, gg.build)
       IN  IF h.res # "ok" THEN ParseEnds(h.res)
           ELSE gg' = [gg EXCEPT !.pc = "metadata", !.offset = h.off,
                                 !.version = h.version,
                                 !.tensor_count = h.tensor_count,
                                 !.kv_left = h.metadata_kv_count]
    /\ UNCHANGED <<session_vars, smp, obj_vars>>

\* one iteration of `for _ in 0..metadata_kv_count`
ParseMetadataEntry ==
    /\ gg.pc = "metadata"
    /\ gg.kv_left # 0
    /\ LET key == read_string(gg.data, gg.offset, gg.build)
           value == read_metadata_value(gg.data, key.off, gg.build)
       IN  IF key.res # "ok" THEN ParseEnds(key.res)
           ELSE IF value.res # "ok" THEN ParseEnds(value.res)
           ELSE gg' = [gg EXCEPT !.offset = value.off,
                                 !.kv_left = @ - 1,
                                 !.metadata = Append(@, <<key.val, value.val>>)]
    /\ UNCHANGED <<session_vars, smp, obj_vars>>

\* `Vec::with_capacity(tensor_count as usize)`
ParseTensorsBegin ==
    /\ gg.pc = "metadata"
    /\ gg.kv_left = 0
    /\ IF with_capacity(gg.tensor_count) # "ok" THEN ParseEnds("panic")
       ELSE gg' = [gg EXCEPT !.pc = "tensors", !.t_left = gg.tensor_count]
    /\ UNCHANGED <<session_vars, smp, obj_vars>>

\* one iteration of `for _ in 0..tensor_count`
ParseTensorInfo ==
    /\ gg.pc = "tensors"
    /\ gg.t_left # 0
    /\ LET t == read_tensor_info(gg.data, gg.offset, gg.build)
       IN  IF t.res # "ok" THEN ParseEnds(t.res)
           ELSE gg' = [gg EXCEPT !.offset = t.off, !.t_left = @ - 1,
                                 !.tensors = Append(@, t.val)]
    /\ UNCHANGED <<session_vars, smp, obj_vars>>

\* lines 185-198: a zero alignment makes div_ceil divide by zero
ParseAlign ==
    /\ gg.pc = "tensors"
    /\ gg.t_left = 0
    /\ LET alignment == alignment_of(gg.metadata)
       IN  IF alignment = 0 THEN ParseEnds("panic")
           ELSE gg' = [gg EXCEPT !.pc = "load", !.parse_result = "ok",
                                 !.dir_end = gg.offset,
                                 !.tensor_data_offset =
                                     div_ceil(gg.offset, alignment) * alignment]
    /\ UNCHANGED <<session_vars, smp, obj_vars>>

\* ------------------------------------------------------------------
\* loader.rs: names are the UTF-8 bytes of the strings in the source
Str_token_embd_weight == <<116, 111, 107, 101, 110, 95, 101, 109, 98, 100, 46, 119, 101, 105, 103, 104, 116>>
Str_model_embed_tokens_weight ==
    <<109, 111, 100, 101, 108, 46, 101, 109, 98, 101, 100, 95, 116, 111, 107, 101, 110, 115, 46, 119, 101, 105, 103, 104, 116>>
Str_output_norm_weight == <<111, 117, 116, 112, 117, 116, 95, 110, 111, 114, 109, 46, 119, 101, 105, 103, 104, 116>>
Str_model_norm_weight == <<109, 111, 100, 101, 108, 46, 110, 111, 114, 109, 46, 119, 101, 105, 103, 104, 116>>
Str_output_weight == <<111, 117, 116, 112, 117, 116, 46, 119, 101, 105, 103, 104, 116>>
Str_lm_head_weight == <<108, 109, 95, 104, 101, 97, 100, 46, 119, 101, 105, 103, 104, 116>>
Str_blk == <<98, 108, 107, 46>>
Str_model_layers == <<109, 111, 100, 101, 108, 46, 108, 97, 121, 101, 114, 115, 46>>
Str_weight == <<46, 119, 101, 105, 103, 104, 116>>
Str_weight_scale == <<46, 119, 101, 105, 103, 104, 116, 95, 115, 99, 97, 108, 101>>
Str_lm_head_weight_scale ==
    <<108, 109, 95, 104, 101, 97, 100, 46, 119, 101, 105, 103, 104, 116, 95, 115, 99, 97, 108, 101>>
Str_general_architecture ==
    <<103, 101, 110, 101, 114, 97, 108, 46, 97, 114, 99, 104, 105, 116, 101, 99, 116, 117, 114, 101>>
Str_bitnet == <<98, 105, 116, 110, 101, 116>>
Str_llama == <<108, 108, 97, 109, 97>>
Str_bitnet_25 == <<98, 105, 116, 110, 101, 116, 45, 50, 53>>
Str_block_count == <<98, 108, 111, 99, 107, 95, 99, 111, 117, 110, 116>>
Dot == 46
DefaultNumLayers == 30

\* the `match component` table of remap_gguf_name
BlockComponents ==
    {
     <<<<97, 116, 116, 110, 95, 113, 46, 119, 101, 105, 103, 104, 116>>,
       <<115, 101, 108, 102, 95, 97, 116, 116, 110, 46, 113, 95, 112, 114, 111, 106, 46, 119, 101, 105, 103, 104, 116>>>>,
     <<<<97, 116, 116, 110, 95, 107, 46, 119, 101, 105, 103, 104, 116>>,
       <<115, 101, 108, 102, 95, 97, 116, 116, 110, 46, 107, 95, 112, 114, 111, 106, 46, 119, 101, 105, 103, 104, 116>>>>,
     <<<<97, 116, 116, 110, 95, 118, 46, 119, 101, 105, 103, 104, 116>>,
       <<115, 101, 108, 102, 95, 97, 116, 116, 110, 46, 118, 95, 112, 114, 111, 106, 46, 119, 101, 105, 103, 104, 116>>>>,
     <<<<97, 116, 116, 110, 95, 111, 117, 116, 112, 117, 116, 46, 119, 101, 105, 103, 104, 116>>,
       <<115, 101, 108, 102, 95, 97, 116, 116, 110, 46, 111, 95, 112, 114, 111, 106, 46, 119, 101, 105, 103, 104, 116>>>>,
     <<<<97, 116, 116, 110, 95, 110, 111, 114, 109, 46, 119, 101, 105, 103, 104, 116>>,
       <<105, 110, 112, 117, 116, 95, 108, 97, 121, 101, 114, 110, 111, 114, 109, 46, 119, 101, 105, 103, 104, 116>>>>,
     <<<<102, 102, 110, 95, 110, 111, 114, 109, 46, 119, 101, 105, 103, 104, 116>>,
       <<112, 111, 115, 116, 95, 97, 116, 116, 101, 110, 116, 105, 111, 110, 95, 108, 97, 121, 101, 114, 110, 111, 114, 109, 46, 119, 101, 105, 103, 104, 116>>>>,
     <<<<97, 116, 116, 110, 95, 115, 117, 98, 95, 110, 111, 114, 109, 46, 119, 101, 105, 103, 104, 116>>,
       <<115, 101, 108, 102, 95, 97, 116, 116, 110, 46, 115, 117, 98, 95, 110, 111, 114, 109, 46, 119, 101, 105, 103, 104, 116>>>>,
     <<<<102, 102, 110, 95, 115, 117, 98, 95, 110, 111, 114, 109, 46, 119, 101, 105, 103, 104, 116>>,
       <<109, 108, 112, 46, 115, 117, 98, 95, 110, 111, 114, 109, 46, 119, 101, 105, 103, 104, 116>>>>,
     <<<<102, 102, 110, 95, 117, 112, 46, 119, 101, 105, 103, 104, 116>>,
       <<109, 108, 112, 46, 117, 112, 95, 112, 114, 111, 106, 46, 119, 101, 105, 103, 104, 116>>>>,
     <<<<102, 102, 110, 95, 100, 111, 119, 110, 46, 119, 101, 105, 103, 104, 116>>,
       <<109, 108, 112, 46, 100, 111, 119, 110, 95, 112, 114, 111, 106, 46, 119, 101, 105, 103, 104, 116>>>>,
     <<<<102, 102, 110, 95, 103, 97, 116, 101, 46, 119, 101, 105, 103, 104, 116>>,
       <<109, 108, 112, 46, 103, 97, 116, 101, 95, 112, 114, 111, 106, 46, 119, 101, 105, 103, 104, 116>>>>
    }

\* the entries of create_dummy_scales, after the "model.layers.{i}" prefix
ScaleSuffixes ==
    {
     <<46, 115, 101, 108, 102, 95, 97, 116, 116, 110, 46, 113, 95, 112, 114, 111, 106, 46, 119, 101, 105, 103, 104, 116, 95, 115, 99, 97, 108, 101>>,
     <<46, 115, 101, 108, 102, 95, 97, 116, 116, 110, 46, 107, 95, 112, 114, 111, 106, 46, 119, 101, 105, 103, 104, 116, 95, 115, 99, 97, 108, 101>>,
     <<46, 115, 101, 108, 102, 95, 97, 116, 116, 110, 46, 118, 95, 112, 114, 111, 106, 46, 119, 101, 105, 103, 104, 116, 95, 115, 99, 97, 108, 101>>,
     <<46, 115, 101, 108, 102, 95, 97, 116, 116, 110, 46, 111, 95, 112, 114, 111, 106, 46, 119, 101, 105, 103, 104, 116, 95, 115, 99, 97, 108, 101>>,
     <<46, 109, 108, 112, 46, 117, 112, 95, 112, 114, 111, 106, 46, 119, 101, 105, 103, 104, 116, 95, 115, 99, 97, 108, 101>>,
     <<46, 109, 108, 112, 46, 100, 111, 119, 110, 95, 112, 114, 111, 106, 46, 119, 101, 105, 103, 104, 116, 95, 115, 99, 97, 108, 101>>,
     <<46, 109, 108, 112, 46, 103, 97, 116, 101, 95, 112, 114, 111, 106, 46, 119, 101, 105, 103, 104, 116, 95, 115, 99, 97, 108, 101>>
    }

StartsWith(str, prefix) ==
    Len(str) >= Len(prefix) /\ SubSeq(str, 1, Len(prefix)) = prefix
Drop(str, n) == SubSeq(str, n + 1, Len(str))

\* str::find(ch): the position of the first ch, from 0, or None
Find(str, ch) ==
    IF \E k \in DOMAIN str : str[k] = ch
    THEN (CHOOSE k \in DOMAIN str :
              str[k] = ch /\ \A j \in 1..(k - 1) : str[j] # ch) - 1
    ELSE None

\* str::replace(from, to): every non-overlapping match, left to right
RECURSIVE Replace(_, _, _)
Replace(str, from, to) ==
    IF str = <<>> THEN <<>>
    ELSE IF StartsWith(str, from) THEN to \o Replace(Drop(str, Len(from)), from, to)
    ELSE <<Head(str)>> \o Replace(Tail(str), from, to)

\* format!("{i}") of a usize
RECURSIVE Decimal(_)
Decimal(n) ==
    IF n < 10 THEN <<48 + n>> ELSE Decimal(n \div 10) \o <<48 + (n % 10)>>

remap_gguf_name(name) ==
    IF name = Str_token_embd_weight THEN Str_model_embed_tokens_weight
    ELSE IF name = Str_output_norm_weight THEN Str_model_norm_weight
    ELSE IF name = Str_output_weight THEN Str_lm_head_weight
    ELSE IF StartsWith(name, Str_blk) /\ Find(Drop(name, Len(Str_blk)), Dot) # None
    THEN LET rest == Drop(name, Len(Str_blk))
             dot_pos == Find(rest, Dot)
             layer == SubSeq(rest, 1, dot_pos)
             component == Drop(rest, dot_pos + 1)
             prefix == Str_model_layers \o layer
             hits == {c \in BlockComponents : c[1] = component}
         IN  IF hits = {} THEN prefix \o <<Dot>> \o component
             ELSE prefix \o <<Dot>> \o (CHOOSE c \in hits : TRUE)[2]
    ELSE name

\* GgufValue::as_str, where <<>> stands for no string
as_str(value) == IF value.ty = META_STRING THEN value.v ELSE <<>>

\* the `get` closure of config_from_gguf_metadata
ConfigGet(metadata, suffix) ==
    LET a == MetaGet(metadata, Str_general_architecture)
        arch == IF a.ty = META_STRING THEN as_str(a) ELSE Str_bitnet
        key(prefix) == prefix \o <<Dot>> \o suffix
    IN  IF MetaGet(metadata, key(arch)) # NoValue THEN MetaGet(metadata, key(arch))
        ELSE IF MetaGet(metadata, key(Str_llama)) # NoValue
        THEN MetaGet(metadata, key(Str_llama))
        ELSE IF MetaGet(metadata, key(Str_bitnet)) # NoValue
        THEN MetaGet(metadata, key(Str_bitnet))
        ELSE MetaGet(metadata, key(Str_bitnet_25))

num_hidden_layers(metadata) ==
    LET n == as_u32(ConfigGet(metadata, Str_block_count))
    IN  IF n = None THEN DefaultNumLayers ELSE n

\* ggml_type_size: bytes per element as <<numerator, denominator>>, or <<>>
\* for Err(UnsupportedGgmlType)
ggml_type_size(ty) ==
    IF ty \in {GGML_TYPE_F32, GGML_TYPE_I32} THEN <<4, 1>>
    ELSE IF ty \in {GGML_TYPE_F16, GGML_TYPE_I16, GGML_TYPE_BF16} THEN <<2, 1>>
    ELSE IF ty = GGML_TYPE_I8 THEN <<1, 1>>
    ELSE IF ty \in {GGML_TYPE_I64, GGML_TYPE_F64} THEN <<8, 1>>
    ELSE IF ty = GGML_TYPE_TQ1_0 THEN <<54, 256>>
    ELSE IF ty = GGML_TYPE_TQ2_0 THEN <<66, 256>>
    ELSE IF ty = GGML_TYPE_I2_S THEN <<1, 4>>
    ELSE <<>>

\* `tensor.shape.iter().product()` for the dimensions that occur here
RECURSIVE Product(_)
Product(shape) == IF shape = <<>> THEN 1 ELSE Head(shape) * Product(Tail(shape))

\* `&data[start..start + size]`: "ok" or "panic"
SliceRange(data, start, size, build) ==
    LET end == UsizeAdd(start, size)
    IN  IF end.overflow /\ build = "debug" THEN "panic"
        ELSE IF start < 0 \/ end.v < start \/ end.v > Len(data) THEN "panic"
        ELSE "ok"

\* the names one tensor puts into the store (upload_sharded, upload)
UploadedNames(tensor) ==
    LET hf_name == remap_gguf_name(tensor.name)
    IN  IF tensor.tensor_type = GGML_TYPE_I2_S
        THEN {hf_name, Replace(hf_name, Str_weight, Str_weight_scale)}
        ELSE {hf_name}

\* the names whose buffer holds an I2_S tensor's trailing scale once this
\* tensor is uploaded: upload(hf_name) replaces what hf_name held,
\* upload(scale_name) comes last
I2sScalesAfter(scales, tensor) ==
    LET hf_name == remap_gguf_name(tensor.name)
    IN  IF tensor.tensor_type = GGML_TYPE_I2_S
        THEN (scales \ {hf_name})
                 \cup {Replace(hf_name, Str_weight, Str_weight_scale)}
        ELSE scales \ {hf_name}

\* create_dummy_scales: the names it looks up, seven per layer and lm_head
DummyScaleNames(n_layers) ==
    {Str_model_layers \o Decimal(i) \o sfx :
        i \in 0..(n_layers - 1), sfx \in ScaleSuffixes}
        \cup {Str_lm_head_weight_scale}

\* variant: every looked-up name is uploaded, present or not
SynthesizedNames_unconditional(store, n_layers) == DummyScaleNames(n_layers)

\* create_dummy_scales: the names it uploads an all-ones buffer for
SynthesizedNames(store, n_layers) == DummyScaleNames(n_layers) \ store

\* load_gguf returns Err(e), or the thread panics: the store is dropped
LoadEnds(e) ==
    gg' = [gg EXCEPT !.pc = "done", !.load_result = e, !.store = {},
                     !.i2s_scales = {}, !.ones = {}]

\* lines 84-103
LoadDetectTied ==
    /\ gg.pc = "load"
    /\ LET has_output_weight ==
               \E k \in DOMAIN gg.tensors : gg.tensors[k].name = Str_output_weight
       IN  gg' = [gg EXCEPT !.pc = "upload", !.i = 1,
                            !.tie_word_embeddings = ~has_output_weight]
    /\ UNCHANGED <<session_vars, smp, obj_vars>>

\* one iteration of `for (i, tensor) in gguf.tensors.iter().enumerate()`
LoadTensor ==
    /\ gg.pc = "upload"
    /\ gg.i <= Len(gg.tensors)
    /\ LET tensor == gg.tensors[gg.i]
           data_offset == UsizeAdd(gg.tensor_data_offset, tensor.offset)
           num_elements == Product(tensor.shape)
           elem_size == ggml_type_size(tensor.tensor_type)
           byte_size == IF tensor.tensor_type = GGML_TYPE_I2_S
                        THEN div_ceil(num_elements, 4) + 32
                        ELSE div_ceil(num_elements * elem_size[1], elem_size[2])
       IN  IF data_offset.overflow /\ gg.build = "debug" THEN LoadEnds("panic")
           ELSE IF elem_size = <<>> THEN LoadEnds("UnsupportedGgmlType")
           ELSE IF SliceRange(gg.data, data_offset.v, byte_size, gg.build) # "ok"
           THEN LoadEnds("panic")
           ELSE gg' = [gg EXCEPT !.i = @ + 1,
                                 !.store = @ \cup UploadedNames(tensor),
                                 !.i2s_scales = I2sScalesAfter(@, tensor)]
    /\ UNCHANGED <<session_vars, smp, obj_vars>>

\* lines 159-167
LoadFinish ==
    /\ gg.pc = "upload"
    /\ gg.i > Len(gg.tensors)
    /\ LET ones == SynthesizedNames(gg.store, num_hidden_layers(gg.metadata))
           store == gg.store \cup ones
       IN  gg' = [gg EXCEPT !.pc = "done", !.load_result = "ok",
                            !.store = store, !.returned = store,
                            !.ones = ones, !.i2s_scales = @ \ ones]
    /\ UNCHANGED <<session_vars, smp, obj_vars>>

\* ------------------------------------------------------------------
\* the files handed to load_gguf: the container layout written out in bytes
MaxKv == 1
MaxTensors == 1
PayloadLen == 96
Builds == {"debug", "release"}
HugeU64 == 0 - 1

U32Bytes(v) ==
    <<v % 256, (v \div 256) % 256, (v \div 65536) % 256, (v \div 16777216) % 256>>
U64Bytes(v) ==
    U32Bytes(v) \o (IF v < 0 THEN <<255, 255, 255, 255>> ELSE <<0, 0, 0, 0>>)
StrBytes(str) == U64Bytes(Len(str)) \o str
HeaderBytes(magic, version, tensor_count, metadata_kv_count) ==
    magic \o U32Bytes(version) \o U64Bytes(tensor_count)
          \o U64Bytes(metadata_kv_count)
KvBytes(key, ty, payload) == StrBytes(key) \o U32Bytes(ty) \o payload
TensorBytes(name, dim, ty, offset) ==
    StrBytes(name) \o U32Bytes(1) \o U64Bytes(dim) \o U32Bytes(ty)
                   \o U64Bytes(offset)

MagicBytes == U32Bytes(GGUF_MAGIC)
BadMagicBytes == <<71, 71, 85, 102>>
Str_other_key == <<97>>
Str_bitnet_block_count == Str_bitnet \o <<Dot>> \o Str_block_count
Str_blk_0_attn_q_weight == <<98, 108, 107, 46, 48, 46, 97, 116, 116, 110, 95, 113, 46, 119, 101, 105, 103, 104, 116>>
GGML_TYPE_Q4_0 == 2

KvChoices ==
    { KvBytes(KEY_ALIGNMENT, META_UINT32, U32Bytes(16)),
      KvBytes(KEY_ALIGNMENT, META_UINT32, U32Bytes(0)),
      KvBytes(KEY_ALIGNMENT, META_UINT64, U64Bytes(128)),
      KvBytes(Str_other_key, META_STRING, StrBytes(<<98>>)),
      KvBytes(Str_other_key, META_ARRAY,
              U32Bytes(META_UINT8) \o U64Bytes(2) \o <<1, 2>>),
      KvBytes(Str_other_key, 13, <<>>),
      KvBytes(Str_bitnet_block_count, META_UINT32, U32Bytes(1)),
      U64Bytes(HugeU64) }

TensorChoices ==
    { TensorBytes(Str_output_weight, 4, GGML_TYPE_F32, 0),
      TensorBytes(Str_lm_head_weight, 4, GGML_TYPE_F32, 0),
      TensorBytes(Str_token_embd_weight, 4, GGML_TYPE_F32, 0),
      TensorBytes(Str_blk_0_attn_q_weight, 4, GGML_TYPE_I2_S, 0),
      TensorBytes(Str_token_embd_weight, 4, GGML_TYPE_Q4_0, 0),
      TensorBytes(Str_token_embd_weight, 4, GGML_TYPE_F32, PayloadLen),
      TensorBytes(Str_token_embd_weight, 4, GGML_TYPE_F32, HugeU64) }

SeqsUpTo(S, n) == UNION {[1..k -> S] : k \in 0..n}

RECURSIVE Concat(_)
Concat(parts) == IF parts = <<>> THEN <<>> ELSE Head(parts) \o Concat(Tail(parts))

Payload == [k \in 1..PayloadLen |-> 0]

\* a well-formed header, its metadata entries, its directory, its tensor data
BodyFile(kvs, ts) ==
    HeaderBytes(MagicBytes, 3, Len(ts), Len(kvs)) \o Concat(kvs) \o Concat(ts)
        \o Payload

HeaderFiles ==
    {HeaderBytes(m, v, 0, 0) : m \in {MagicBytes, BadMagicBytes}, v \in 1..4}
        \cup {HeaderBytes(MagicBytes, 3, HugeU64, 0),
              HeaderBytes(MagicBytes, 3, 0, HugeU64)}

BodyFiles ==
    {BodyFile(kvs, ts) : kvs \in SeqsUpTo(KvChoices, MaxKv),
                         ts \in SeqsUpTo(TensorChoices, MaxTensors)}

\* every proper prefix of one complete file
TruncatedFiles ==
    LET whole == BodyFile(<<KvBytes(KEY_ALIGNMENT, META_UINT32, U32Bytes(16))>>,
                          <<TensorBytes(Str_output_weight, 4, GGML_TYPE_F32, 0)>>)
    IN  {SubSeq(whole, 1, n) : n \in 0..(Len(whole) - 1)}

Files == HeaderFiles \cup BodyFiles \cup TruncatedFiles

InitGguf ==
    /\ IdleSession
    /\ IdleObjects
    /\ smp = NoSample
    /\ gg \in {LoadCall(f, b) : f \in Files, b \in Builds}

NextGguf ==
    \/ ParseHeader
    \/ ParseMetadataEntry
    \/ ParseTensorsBegin
    \/ ParseTensorInfo
    \/ ParseAlign
    \/ LoadDetectTied
    \/ LoadTensor
    \/ LoadFinish

SpecGguf == InitGguf /\ [][NextGguf]_vars

\* ------------------------------------------------------------------
\* model/weights.rs: WeightStore.  A name is the sequence of its dot-separated
\* components; a buffer is an allocation (id) with its size and the bytes
\* copied into it.
MaxCalls == 2
MaxBinding == 2

StoreNames == {<<"w">>, <<"w", "shard_0">>}
DataChoices == {<<>>, <<7>>, <<7, 9>>, <<7, 9, 8>>}
BindingSizes == 0..MaxBinding

\* format!("{name}.shard_{shard_idx}")
shard_name(name, shard_idx) == name \o <<"shard_" \o ToString(shard_idx)>>

\* WeightStore::new
NewStore == [pc |-> "ready", buffers |-> <<>>, next_id |-> 1, calls |-> 0,
             last |-> [op |-> "new"]]

\* lines 23-39: create a buffer of max(len, 4) bytes, copy, insert under name
upload(st, name, data) ==
    LET buf == [id |-> st.next_id,
                size |-> IF Len(data) > 4 THEN Len(data) ELSE 4,
                bytes |-> data]
    IN  [st EXCEPT !.buffers = (name :> buf) @@ st.buffers,
                   !.next_id = st.next_id + 1]

get(st, name) == st.buffers[name]

has(st, name) == name \in DOMAIN st.buffers

\* lines 53-62: the while loop, from `offset` on
RECURSIVE ShardLoop(_, _, _, _, _, _, _)
ShardLoop(st, name, data, max, offset, shard_idx, shards) ==
    IF offset < Len(data)
    THEN LET end == Min(offset + max, Len(data))
             st2 == upload(st, shard_name(name, shard_idx),
                           SubSeq(data, offset + 1, end))
         IN  ShardLoop(st2, name, data, max, end, shard_idx + 1,
                       Append(shards, get(st2, shard_name(name, shard_idx))))
    ELSE [st |-> st, shards |-> shards]

\* lines 63-68: the first shard is also stored under the original name
AliasFirstShard(st, name, shards) ==
    IF shards # <<>> /\ ~has(st, name)
    THEN [st EXCEPT !.buffers = (name :> shards[1]) @@ st.buffers]
    ELSE st

\* lines 42-69.  With max = 0 and data not empty the loop never advances
\* offset: the call does not return.
upload_sharded(st, name, data, max) ==
    IF Len(data) <= max
    THEN LET st2 == upload(st, name, data)
         IN  [st |-> st2, shards |-> <<get(st2, name)>>, returned |-> TRUE]
    ELSE IF max = 0
    THEN [st |-> st, shards |-> <<>>, returned |-> FALSE]
    ELSE LET r == ShardLoop(st, name, data, max, 0, 0, <<>>)
         IN  [st |-> AliasFirstShard(r.st, name, r.shards),
              shards |-> r.shards, returned |-> TRUE]

WsUpload ==
    /\ ws.pc = "ready"
    /\ ws.calls < MaxCalls
    /\ \E name \in StoreNames, data \in DataChoices :
           ws' = [upload(ws, name, data) EXCEPT
                     !.calls = ws.calls + 1,
                     !.last = [op |-> "upload", name |-> name, data |-> data]]
    /\ UNCHANGED <<session_vars, smp, gg, pm, bm>>

WsUploadSharded ==
    /\ ws.pc = "ready"
    /\ ws.calls < MaxCalls
    /\ \E name \in StoreNames, data \in DataChoices, max \in BindingSizes :
           LET r == upload_sharded(ws, name, data, max)
           IN  ws' = [r.st EXCEPT
                         !.pc = IF r.returned THEN "ready" ELSE "hung",
                         !.calls = ws.calls + 1,
                         !.last = [op |-> "upload_sharded", name |-> name,
                                   data |-> data, max |-> max,
                                   had_name |-> has(ws, name),
                                   shards |-> r.shards]]
    /\ UNCHANGED <<session_vars, smp, gg, pm, bm>>

InitWeights ==
    /\ IdleSession
    /\ smp = NoSample
    /\ gg = NoLoad
    /\ ws = NewStore
    /\ pm = NoPipelines
    /\ bm = NoBuild

NextWeights ==
    \/ WsUpload
    \/ WsUploadSharded

SpecWeights == InitWeights /\ [][NextWeights]_vars

\* ------------------------------------------------------------------
\* gpu/pipeline.rs: PipelineManager.  An entry is one compiled pipeline (id)
\* with the entry point it was compiled for.
PipelineKeys == {"rmsnorm", "attention"}
EntryPoints == {"main", "compute_scores"}
ConstantSets == {"None", "Some"}

\* PipelineManager::new
NewPipelines == [pc |-> "ready", cache |-> <<>>, next_id |-> 1, calls |-> 0,
                 served |-> {}, last |-> [op |-> "new"]]

\* lines 31-35: the cache key
cache_key(key, entry_point, constants) == key

\* lines 24-61: the entry returned and the cache afterwards
get_or_create(m, key, entry_point, constants) ==
    LET k == cache_key(key, entry_point, constants)
    IN  IF k \in DOMAIN m.cache
        THEN [m |-> m, entry |-> m.cache[k], compiled |-> FALSE]
        ELSE LET entry == [id |-> m.next_id, entry_point |-> entry_point]
             IN  [m |-> [m EXCEPT !.cache = (k :> entry) @@ m.cache,
                                  !.next_id = m.next_id + 1],
                  entry |-> entry, compiled |-> TRUE]

\* the call as the caller sees it
Served(m, key, entry_point, constants) ==
    LET r == get_or_create(m, key, entry_point, constants)
    IN  [r.m EXCEPT
            !.calls = m.calls + 1,
            !.served = @ \cup {[key |-> key, entry_point |-> entry_point,
                                constants |-> constants, id |-> r.entry.id]},
            !.last = [op |-> "get_or_create", key |-> key,
                      entry_point |-> entry_point, constants |-> constants,
                      entry |-> r.entry, compiled |-> r.compiled]]

PmGetOrCreate ==
    /\ pm.pc = "ready"
    /\ pm.calls < MaxCalls + 1
    /\ \E key \in PipelineKeys, entry_point \in EntryPoints,
          constants \in ConstantSets :
           pm' = Served(pm, key, entry_point, constants)
    /\ UNCHANGED <<session_vars, smp, gg, ws, bm>>

\* lines 64-66: get_or_create(key, wgsl, "main", None)
PmGetOrCreateDefault ==
    /\ pm.pc = "ready"
    /\ pm.calls < MaxCalls + 1
    /\ \E key \in PipelineKeys : pm' = Served(pm, key, "main", "None")
    /\ UNCHANGED <<session_vars, smp, gg, ws, bm>>

\* lines 68-70
PmClear ==
    /\ pm.pc = "ready"
    /\ pm.calls < MaxCalls + 1
    /\ pm' = [pm EXCEPT !.cache = <<>>, !.served = {},
                        !.calls = pm.calls + 1, !.last = [op |-> "clear"]]
    /\ UNCHANGED <<session_vars, smp, gg, ws, bm>>

InitPipelines ==
    /\ IdleSession
    /\ smp = NoSample
    /\ gg = NoLoad
    /\ ws = NoStore
    /\ pm = NewPipelines
    /\ bm = NoBuild

NextPipelines ==
    \/ PmGetOrCreate
    \/ PmGetOrCreateDefault
    \/ PmClear

SpecPipelines == InitPipelines /\ [][NextPipelines]_vars

\* ------------------------------------------------------------------
\* nn/model.rs: BitNetModel::build and forward, with the attention and
\* BitLinear steps the forward runs (nn/attention.rs, nn/bitlinear.rs).
\* A tensor name is <<text>> or <<"model.layers", i, suffix>>.
LayerIndices == 0..(NumLayers - 1)

layer_name(i, sfx) == <<"model.layers", ToString(i), sfx>>

N_embed_tokens == <<"model.embed_tokens.weight">>
N_norm == <<"model.norm.weight">>
N_lm_head == <<"lm_head.weight">>
N_lm_head_scale == <<"lm_head.weight_scale">>
N_lm_head_input_norm == <<"lm_head.input_norm.weight">>

\* the names one layer requires, in the order build asks for them
LayerRequired ==
    << "input_layernorm.weight", "post_attention_layernorm.weight",
       "self_attn.q_proj.weight", "self_attn.q_proj.weight_scale",
       "self_attn.k_proj.weight", "self_attn.k_proj.weight_scale",
       "self_attn.v_proj.weight", "self_attn.v_proj.weight_scale",
       "self_attn.o_proj.weight", "self_attn.o_proj.weight_scale",
       "mlp.up_proj.weight", "mlp.up_proj.weight_scale",
       "mlp.down_proj.weight", "mlp.down_proj.weight_scale" >>

GateRequired == <<"mlp.gate_proj.weight", "mlp.gate_proj.weight_scale">>

SubNorms == {"self_attn.sub_norm.weight", "mlp.sub_norm.weight"}

\* lines 64-150: the require(..) calls of layer i, in order
LayerRequires(store, i) ==
    [k \in DOMAIN LayerRequired |-> layer_name(i, LayerRequired[k])]
        \o (IF layer_name(i, GateRequired[1]) \in store
            THEN [k \in DOMAIN GateRequired |-> layer_name(i, GateRequired[k])]
            ELSE <<>>)

RECURSIVE LayersRequire(_, _)
LayersRequire(store, i) ==
    IF i >= NumLayers THEN <<>>
    ELSE LayerRequires(store, i) \o LayersRequire(store, i + 1)

\* lines 161-172: which LM head is built
lm_head_kind(store, config) ==
    IF config.tie_word_embeddings \/ N_lm_head \notin store
    THEN "Tied" ELSE "Separate"

\* every require(..) call of build, in order
Requires(store, config) ==
    <<N_embed_tokens, N_norm>> \o LayersRequire(store, 0)
        \o (IF lm_head_kind(store, config) = "Separate"
            THEN <<N_lm_head, N_lm_head_scale>> ELSE <<>>)

\* the `?` of the first require(..) that finds nothing
RECURSIVE FirstMissing(_, _)
FirstMissing(store, names) ==
    IF names = <<>> THEN <<>>
    ELSE IF Head(names) \notin store THEN Head(names)
    ELSE FirstMissing(store, Tail(names))

\* line 168: weights.get("lm_head.input_norm.weight").or_else(final_norm)
lm_head_norm(store) ==
    IF N_lm_head_input_norm \in store THEN N_lm_head_input_norm ELSE N_norm

\* lines 41-186: Err(MissingWeight(name)) or the model (<<>>: none)
build(store, config) ==
    LET missing == FirstMissing(store, Requires(store, config))
    IN  IF missing # <<>>
        THEN [result |-> "MissingWeight", missing |-> missing, model |-> <<>>]
        ELSE [result |-> "Ok", missing |-> <<>>,
              model |-> [lm_head |-> lm_head_kind(store, config),
                         lm_head_norm_weight |->
                             IF lm_head_kind(store, config) = "Separate"
                             THEN lm_head_norm(store) ELSE <<>>,
                         gate |-> {i \in LayerIndices :
                                      layer_name(i, GateRequired[1]) \in store}]]

\* the stores build is called on: every tensor, less one name or less a few
\* of the LM-head and optional ones
AllTensors ==
    {N_embed_tokens, N_norm, N_lm_head, N_lm_head_scale, N_lm_head_input_norm}
        \cup {layer_name(i, LayerRequired[k]) :
                  i \in LayerIndices, k \in DOMAIN LayerRequired}
        \cup {layer_name(i, GateRequired[k]) :
                  i \in LayerIndices, k \in DOMAIN GateRequired}
        \cup {layer_name(i, sfx) : i \in LayerIndices, sfx \in SubNorms}

HeadAndOptional ==
    {N_lm_head, N_lm_head_scale, N_lm_head_input_norm}
        \cup {layer_name(0, GateRequired[k]) : k \in DOMAIN GateRequired}
        \cup {layer_name(0, sfx) : sfx \in SubNorms}

Stores ==
    {AllTensors \ {t} : t \in AllTensors}
        \cup {AllTensors \ D : D \in {E \in SUBSET HeadAndOptional : Cardinality(E) <= 2}}

Configs == [tie_word_embeddings : BOOLEAN]

NoObserved == [cache |-> None]

BuildCall(store, config) ==
    [pc |-> "build", store |-> store, config |-> config,
     result |-> "none", missing |-> <<>>, model |-> <<>>,
     seq_len |-> [i \in Layers |-> 0], n |-> 0, p |-> 0, i |-> 0,
     observed |-> [i \in Layers |-> NoObserved], head_norms |-> <<>>,
     forwards |-> 0]

BmBuild ==
    /\ bm.pc = "build"
    /\ LET b == build(bm.store, bm.config)
       IN  bm' = [bm EXCEPT !.pc = IF b.result = "Ok" THEN "ready" ELSE "failed",
                            !.result = b.result, !.missing = b.missing,
                            !.model = b.model]
    /\ UNCHANGED <<session_vars, smp, gg, ws, pm>>

\* variant: every layer is handed the first layer's cache
kv_index_first(i) == 1

\* model.rs line 214: `&mut self.kv_caches[i]`
kv_index(i) == i

\* attention.rs lines 97-118: what Attention::forward reads from the cache
\* it is handed: the RoPE offsets of Q and K, the token offset of the new
\* K/V rows (append_to_cache, lines 170-183), the positions attended over
attention_forward(c, cache_seq_len, n) ==
    [cache |-> c, rope_q |-> cache_seq_len, rope_k |-> cache_seq_len,
     write_at |-> cache_seq_len, rows |-> n, total_seq |-> cache_seq_len + n]

\* bitlinear.rs lines 60-71: the pre-norm step of BitLinear::forward
bitlinear_norms(norm_weight) ==
    IF norm_weight # <<>> THEN <<norm_weight>> ELSE <<>>

\* model.rs lines 189-210: forward(token_ids) up to the embedding
BmForwardEnter ==
    /\ bm.pc = "ready"
    /\ bm.forwards < MaxCalls + 1
    /\ \E n \in 0..MaxPrompt :
           bm' = [bm EXCEPT !.pc = "layers", !.n = n, !.p = bm.seq_len[1],
                            !.i = 1, !.head_norms = <<>>,
                            !.observed = [i \in Layers |-> NoObserved]]
    /\ UNCHANGED <<session_vars, smp, gg, ws, pm>>

\* model.rs lines 212-219: one iteration of the layer loop
BmLayer ==
    /\ bm.pc = "layers"
    /\ bm.i <= NumLayers
    /\ LET c == kv_index(bm.i)
       IN  bm' = [bm EXCEPT
                     !.observed[bm.i] = attention_forward(c, bm.seq_len[c], bm.n),
                     !.seq_len[bm.i] = @ + bm.n,
                     !.i = @ + 1]
    /\ UNCHANGED <<session_vars, smp, gg, ws, pm>>

\* model.rs lines 221-254: final norm, last-token row, LM head, submit
BmHead ==
    /\ bm.pc = "layers"
    /\ bm.i > NumLayers
    /\ bm' = [bm EXCEPT
                 !.pc = "ready",
                 !.forwards = @ + 1,
                 !.head_norms =
                     <<N_norm>> \o
                         (IF bm.model.lm_head = "Separate"
                          THEN bitlinear_norms(bm.model.lm_head_norm_weight)
                          ELSE <<>>)]
    /\ UNCHANGED <<session_vars, smp, gg, ws, pm>>

\* model.rs lines 288-298
BmResetKvCache ==
    /\ bm.pc = "ready"
    /\ bm.forwards > 0
    /\ bm' = [bm EXCEPT !.seq_len = [i \in Layers |-> 0]]
    /\ UNCHANGED <<session_vars, smp, gg, ws, pm>>

InitModel ==
    /\ IdleSession
    /\ smp = NoSample
    /\ gg = NoLoad
    /\ ws = NoStore
    /\ pm = NoPipelines
    /\ bm \in {BuildCall(s, c) : s \in Stores, c \in Configs}

NextModel ==
    \/ BmBuild
    \/ BmForwardEnter
    \/ BmLayer
    \/ BmHead
    \/ BmResetKvCache

SpecModel == InitModel /\ [][NextModel]_vars

\* ================================================================ claims
\* the stop ids that are active for this tokenizer
StopIds == {eos_id} \cup ({eot_id, im_end_id} \ {None})

Front(s) == SubSeq(s, 1, Len(s) - 1)

AllZero == \A i \in Layers : kv_caches[i].seq_len = 0

\* C1: a stream never emits more than max_tokens strings (none when
\* max_tokens = 0).
GenerationCap == Len(emitted) <= max_tokens

\* C1 witness: a stream that ran to the cap and emitted max_tokens strings
GenerationCapWitness ==
    /\ pc = "done"
    /\ end_cause = "max_tokens"
    /\ max_tokens = MaxTokens
    /\ Len(emitted) = MaxTokens

\* C2: once the sampled id is an active stop id the stream has ended at that
\* step: the id is not in the recent-token window, nothing was emitted for it
\* and no forward was issued for it (one prefill plus one decode forward per
\* earlier accepted id); a first sampled stop id leaves the stream empty.
StopEndsStream ==
    (sampled # <<>> /\ sampled[Len(sampled)] \in StopIds) =>
        /\ pc = "done"
        /\ end_cause = "stop"
        /\ recent_tokens = Front(sampled)
        /\ Len(emitted) <= Len(sampled) - 1
        /\ \A k \in DOMAIN emitted : emitted[k][1] \notin StopIds
        /\ n_forwards = Len(sampled)
        /\ (Len(sampled) = 1 => emitted = <<>>)

\* C2 witness: the first sampled id is the eot id and the stream is empty
StopEndsStreamWitness ==
    /\ pc = "done"
    /\ Len(sampled) = 1
    /\ sampled[1] = eot_id
    /\ emitted = <<>>
    /\ n_forwards = 1

\* C3: all layers have the same seq_len when a forward is entered, and when
\* the forward over fw_n ids has run every layer each seq_len has grown by
\* exactly fw_n.
KvGrowth ==
    /\ pc \in {"prefill", "decode"} =>
           \A i, j \in Layers : kv_caches[i].seq_len = kv_caches[j].seq_len
    /\ pc = "layers" =>
           \A i, j \in Layers : fw_entry[i] = fw_entry[j]
    /\ (pc = "layers" /\ fw_i > NumLayers) =>
           \A i \in Layers : kv_caches[i].seq_len = fw_entry[i] + fw_n

\* C3 witness: a decode forward has run every layer on top of a prompt of
\* MaxPrompt ids
KvGrowthWitness ==
    /\ pc = "layers"
    /\ fw_i > NumLayers
    /\ fw_n = 1
    /\ fw_entry[NumLayers] = MaxPrompt
    /\ kv_caches[NumLayers].seq_len = MaxPrompt + 1

\* C4: every cache's seq_len stays within [0, max_seq_len].
KvWithinCapacity ==
    \A i \in Layers :
        /\ 0 <= kv_caches[i].seq_len
        /\ kv_caches[i].seq_len <= kv_caches[i].max_seq_len

PrefillFromZero ==
    /\ pc = "prefill" =>
           /\ AllZero
           /\ \A i \in Layers : bg_entries[i] = {}
    /\ (pc = "layers" /\ n_forwards = 0) =>
           /\ \A i \in Layers : fw_entry[i] = 0
           /\ fw_n = input_len

\* C6 witness: a generation that found caches left non-empty by an earlier
\* generation has reset them and is about to run its prefill forward
PrefillFromZeroWitness ==
    /\ pc = "prefill"
    /\ reset_from > 0
    /\ input_len > 0
    /\ AllZero

\* C7: once dispose() has been called every seq_len is 0 and no forward
\* pass runs any more.
DisposedStaysDisposed ==
    dispose_called => (pc # "layers" /\ AllZero)

\* C8: a stream that ended on a failed readback leaves the model disposed
\* (every seq_len 0).
ReadbackErrorDisposes ==
    (pc = "done" /\ end_cause = "readback_error") => AllZero

\* C9: inside a generation at most one forward is outstanding without a
\* completed readback, and a decode forward is only entered when every
\* earlier forward's logits have been read back successfully.
ReadbackBetweenForwards ==
    /\ n_forwards - n_readbacks \in {0, 1}
    /\ (pc = "decode" \/ (pc = "layers" /\ n_forwards >= 1)) =>
           n_readbacks = n_forwards

\* C9 witness: the second decode forward is running after two readbacks
ReadbackBetweenForwardsWitness ==
    /\ pc = "layers"
    /\ n_forwards = 2
    /\ n_readbacks = 2

\* C11: an accepted id whose decode_one result is an error or the empty
\* string puts nothing on the stream, but is appended to the recent-token
\* window and uses up one of the max_tokens steps.
DecodeFailureSkipped ==
    /\ \A k \in DOMAIN emitted : emitted[k][2] = "text"
    /\ pc \in {"decode", "yielded"} =>
           /\ recent_tokens = sampled
           /\ iter = Len(sampled)

\* the last k elements of s
Suffix(s, k) == SubSeq(s, Len(s) - k + 1, Len(s))

\* C10 (as stated): the window handed to the sampler is the last
\* min(repeat_last_n, g) accepted ids, hence empty when repeat_last_n = 0.
WindowIsLastN ==
    sampled # <<>> =>
        last_window = Suffix(Front(sampled),
                             Min(repeat_last_n, Len(sampled) - 1))

\* C10 (amended): the window handed to the sampler is the last
\* min(repeat_last_n, g) accepted generated ids when repeat_last_n > 0 and
\* all g accepted generated ids when repeat_last_n = 0.
WindowIsLastNOrAll ==
    sampled # <<>> =>
        last_window =
            IF repeat_last_n > 0
            THEN Suffix(Front(sampled), Min(repeat_last_n, Len(sampled) - 1))
            ELSE Front(sampled)

\* C10 witness: more ids were accepted than the window holds
WindowIsLastNOrAllWitness ==
    /\ sampled # <<>>
    /\ repeat_last_n >= 1
    /\ Len(sampled) - 1 > repeat_last_n
    /\ Len(last_window) = repeat_last_n
    /\ last_window[1] = sampled[Len(sampled) - repeat_last_n]


\* ------------------------------------------------------------------
\* sample_token

SamplerV == vocab_size(smp.orig)
IsFinite(x) == ~IsNan(x) /\ ~IsInf(x)
FiniteIds(l) == {i \in DOMAIN l : IsFinite(l[i])}

\* j is ahead of i in the order "larger logit first, lower index on ties"
Outranks(l, j, i) == l[j] > l[i] \/ (l[j] = l[i] /\ j < i)
TopKIds(l, k) ==
    {i \in DOMAIN l : Cardinality({j \in DOMAIN l : Outranks(l, j, i)}) < k}

\* C12: with 0 < top_k < V and finite logits, after the top-k step exactly
\* the top_k largest logits (lower index first on ties) are still finite and
\* unchanged and every other logit is -inf; top_k = 0 or top_k >= V changes
\* nothing.
TopKKeepsExactlyK ==
    smp.pc = "softmax" =>
        IF smp.top_k > 0 /\ smp.top_k < SamplerV
        THEN FiniteIds(smp.scaled) = DOMAIN smp.scaled =>
                 /\ Cardinality(FiniteIds(smp.filtered)) = smp.top_k
                 /\ \A i \in DOMAIN smp.scaled :
                        smp.filtered[i] =
                            IF i \in TopKIds(smp.scaled, smp.top_k)
                            THEN smp.scaled[i] ELSE NINF
        ELSE smp.filtered = smp.scaled

\* the index holding the single largest logit, None when there is a tie
UniqueArgmax(l) ==
    IF \E i \in DOMAIN l : \A j \in DOMAIN l \ {i} : l[i] > l[j]
    THEN CHOOSE i \in DOMAIN l : \A j \in DOMAIN l \ {i} : l[i] > l[j]
    ELSE None

\* C13: with top_k = 1, repeat_penalty = 1.0 and a positive temperature the
\* returned id is the index of the unique maximum, whatever the variate.
GreedyReturnsArgmax ==
    (/\ smp.pc = "done"
     /\ smp.top_k = 1
     /\ smp.repeat_penalty = Unit
     /\ smp.temperature > 0
     /\ UniqueArgmax(smp.orig) # None)
        => smp.result = UniqueArgmax(smp.orig)

RECURSIVE PrefixSum(_, _)
PrefixSum(w, i) == IF i < 0 THEN 0 ELSE WAdd(PrefixSum(w, i - 1), w[i])

NoWeightReaches ==
    \A i \in DOMAIN smp.logits :
        ~ReachesVariate(PrefixSum(smp.logits, i), smp.variate, smp.sum)

\* C14: the returned id lies in [0, V), and it is V - 1 when no cumulative
\* weight reaches the scaled variate.
ResultInRange ==
    smp.pc = "done" =>
        /\ smp.result \in 0..(SamplerV - 1)
        /\ NoWeightReaches => smp.result = SamplerV - 1

\* a NaN weight sum: nothing reaches the variate and V - 1 is returned
ResultInRangeWitness ==
    /\ smp.pc = "done"
    /\ SamplerV >= 2
    /\ IsNan(smp.sum)
    /\ NoWeightReaches
    /\ smp.result = SamplerV - 1

RECURSIVE Penalized(_, _, _)
Penalized(x, p, c) ==
    IF c = 0 THEN x
    ELSE Penalized(IF ~IsNan(x) /\ x > 0 THEN FDiv(x, p) ELSE FMul(x, p), p, c - 1)

Occurrences(seq, t) == Cardinality({k \in DOMAIN seq : seq[k] = t})

\* C15: the penalty step divides logits[t] by the penalty when it is > 0 and
\* multiplies it otherwise, once per occurrence of t in the window, and
\* leaves every id outside the window unchanged.
PenaltyDividesOrMultiplies ==
    smp.pc = "temperature" =>
        \A i \in DOMAIN smp.orig :
            smp.logits[i] =
                Penalized(smp.orig[i], smp.repeat_penalty,
                          Occurrences(smp.recent, i))

\* [1.0, 2.0, 3.0] with window [2] and penalty 2.0 becomes [1.0, 2.0, 1.5]
PenaltyExampleWitness ==
    /\ smp.pc = "temperature"
    /\ smp.orig = [i \in 0..2 |-> (i + 1) * Unit]
    /\ smp.recent = <<2>>
    /\ smp.repeat_penalty = 2 * Unit
    /\ smp.logits = [i \in 0..2 |-> IF i = 2 THEN (3 * Unit) \div 2
                                    ELSE (i + 1) * Unit]


\* ------------------------------------------------------------------
\* GgufParser::parse and load_gguf

HeaderRead == gg.pc \notin {"none", "header"}
MagicRight == SubSeq(gg.data, 1, 4) = <<71, 71, 85, 70>>
VersionField == SubSeq(gg.data, 5, 8)
VersionAccepted == VersionField \in {<<2, 0, 0, 0>>, <<3, 0, 0, 0>>}

\* C16: on at least 8 bytes, a wrong magic gives InvalidMagic (whatever the
\* version), a right magic with a version other than 2 or 3 gives
\* UnsupportedVersion, and versions 2 and 3 give neither.
HeaderErrors ==
    (HeaderRead /\ Len(gg.data) >= 8) =>
        /\ ~MagicRight => gg.parse_result = "InvalidGgufMagic"
        /\ (MagicRight /\ ~VersionAccepted) =>
               gg.parse_result = "UnsupportedGgufVersion"
        /\ (MagicRight /\ VersionAccepted) =>
               gg.parse_result \notin {"InvalidGgufMagic",
                                       "UnsupportedGgufVersion"}

\* wrong magic and unsupported version together: the magic is reported
HeaderErrorsWitness ==
    /\ HeaderRead
    /\ Len(gg.data) >= 8
    /\ ~MagicRight
    /\ VersionField = <<1, 0, 0, 0>>
    /\ gg.parse_result = "InvalidGgufMagic"

SmallestMultipleAtLeast(m, a, off) == m % a = 0 /\ m >= off /\ m - a < off
AlignmentEntry == MetaGet(gg.metadata, KEY_ALIGNMENT)

\* C17 as stated: after a successful parse tensor_data_offset is the smallest
\* multiple of the alignment at or after the end of the directory, the
\* alignment being the general.alignment value when the key is present and
\* 32 otherwise.
AlignedToMetadataValue ==
    gg.parse_result = "ok" =>
        SmallestMultipleAtLeast(
            gg.tensor_data_offset,
            IF AlignmentEntry # NoValue THEN AlignmentEntry.v ELSE 32,
            gg.offset)

\* C17: after a successful parse tensor_data_offset is the smallest multiple
\* of the alignment at or after the end of the directory, the alignment
\* being the general.alignment value when it is stored as u8, u16, u32 or
\* i32 and 32 otherwise; a bare 24-byte header gives 32.
AlignedToU32Value ==
    gg.parse_result = "ok" =>
        /\ SmallestMultipleAtLeast(
               gg.tensor_data_offset,
               IF AlignmentEntry.ty \in {META_UINT8, META_UINT16, META_UINT32,
                                         META_INT32}
               THEN AlignmentEntry.v ELSE 32,
               gg.offset)
        /\ Len(gg.data) = 24 => gg.tensor_data_offset = 32

\* an alignment of 16 puts the tensor data where an alignment of 32 would not
AlignedToU32ValueWitness ==
    /\ gg.parse_result = "ok"
    /\ AlignmentEntry = Value(META_UINT32, 16)
    /\ gg.tensor_data_offset > gg.offset
    /\ gg.tensor_data_offset % 16 = 0
    /\ gg.tensor_data_offset % 32 # 0

\* C18: parse ends with a GgufFile or an error value and never aborts.
ParseNeverAborts == gg.parse_result # "panic"

SupportedTypes ==
    {GGML_TYPE_F32, GGML_TYPE_F16, GGML_TYPE_I8, GGML_TYPE_I16, GGML_TYPE_I32,
     GGML_TYPE_I64, GGML_TYPE_F64, GGML_TYPE_BF16, GGML_TYPE_TQ1_0,
     GGML_TYPE_TQ2_0, GGML_TYPE_I2_S}

\* the byte range of an F32 or I2_S tensor ends after the end of the file
BeyondFile(t) ==
    \/ t.offset < 0
    \/ gg.tensor_data_offset + t.offset
           + (IF t.tensor_type = GGML_TYPE_I2_S
              THEN (Product(t.shape) + 3) \div 4 + 32
              ELSE 4 * Product(t.shape)) > Len(gg.data)

BadTensor(t) ==
    \/ t.tensor_type \notin SupportedTypes
    \/ t.tensor_type \in {GGML_TYPE_F32, GGML_TYPE_I2_S} /\ BeyondFile(t)

\* C19: when a directory entry has an unsupported type or a byte range that
\* ends beyond the file, the load ends with an error value (not a crash),
\* and no weight store is returned.
LoadRejectsBadTensor ==
    (/\ gg.pc = "done"
     /\ gg.parse_result = "ok"
     /\ \E k \in DOMAIN gg.tensors : BadTensor(gg.tensors[k]))
        => /\ gg.load_result \notin {"ok", "panic"}
           /\ gg.returned = {}

\* C20: after a successful load tie_word_embeddings is true exactly when the
\* directory holds neither output.weight nor lm_head.weight.
TiedIffNoHeadTensor ==
    gg.load_result = "ok" =>
        (gg.tie_word_embeddings <=>
            \A k \in DOMAIN gg.tensors :
                gg.tensors[k].name \notin {Str_output_weight, Str_lm_head_weight})


\* ------------------------------------------------------------------
\* the generation session, continued

\* accepted ids whose decode_one result was an error
ErrCount(ids) == Cardinality({k \in DOMAIN ids : decode_table[ids[k]] = "err"})

\* C25 as stated: when the consumer holds the k-th string and has not polled
\* again, exactly k forwards and k readbacks have been issued.
ForwardsEqualStrings ==
    pc = "yielded" =>
        /\ n_forwards = Len(emitted)
        /\ n_readbacks = Len(emitted)

\* C25: when the consumer holds the k-th string and has not polled again,
\* with a the number of ids accepted so far (k plus the accepted ids whose
\* decoding failed), exactly a forwards (one prefill, a - 1 decode) and a
\* readbacks and a samplings have been issued; the decode forward of the
\* a-th accepted id has not been submitted.
ForwardsEqualAccepted ==
    pc = "yielded" =>
        /\ n_forwards = Len(recent_tokens)
        /\ n_readbacks = Len(recent_tokens)
        /\ Len(sampled) = Len(recent_tokens)
        /\ Len(emitted) = Len(recent_tokens) - ErrCount(recent_tokens)

\* the first string arrives after a skipped id: two forwards, one string
ForwardsEqualAcceptedWitness ==
    /\ pc = "yielded"
    /\ Len(emitted) = 1
    /\ Len(recent_tokens) = 2
    /\ n_forwards = 2
    /\ n_readbacks = 2

\* C28: every layer's seq_len is Lp + (a - 1) when the a-th accepted id's
\* string is emitted; when the stream has ended it is Lp + a after a stop id
\* or a readback error and Lp + max_tokens after reaching max_tokens.
SeqLenAtEmissionAndEnd ==
    /\ pc = "yielded" =>
           \A i \in Layers :
               kv_caches[i].seq_len = input_len + Len(recent_tokens) - 1
    /\ (pc = "done" /\ end_cause \in {"stop", "readback_error"}) =>
           \A i \in Layers :
               kv_caches[i].seq_len = input_len + Len(recent_tokens)
    /\ (pc = "done" /\ end_cause = "max_tokens") =>
           \A i \in Layers : kv_caches[i].seq_len = input_len + max_tokens

\* the stream ended on max_tokens: one more forward than readbacks
SeqLenAtEmissionAndEndWitness ==
    /\ pc = "done"
    /\ end_cause = "max_tokens"
    /\ max_tokens >= 2
    /\ n_readbacks = max_tokens
    /\ n_forwards = max_tokens + 1
    /\ \A i \in Layers : kv_caches[i].seq_len = input_len + max_tokens

\* C30: with an empty id vector (the tokenizer failed) the stream resets the
\* caches, runs the prefill forward with N = 0, which leaves every seq_len
\* at 0, and goes on into the sampling loop.
EmptyPromptPrefill ==
    (input_len = 0 /\ pc \notin {"idle", "start"}) =>
        /\ pc = "layers" /\ n_forwards = 0 => fw_n = 0
        /\ (n_forwards = 0 \/ (n_forwards = 1 /\ pc # "layers")) =>
               \A i \in Layers : kv_caches[i].seq_len = 0
        /\ pc \in {"read", "sample", "decode_one", "yielded"} => n_forwards >= 1

\* the first sampling after a prefill over no ids
EmptyPromptPrefillWitness ==
    /\ input_len = 0
    /\ pc = "sample"
    /\ n_forwards = 1
    /\ n_readbacks = 1
    /\ \A i \in Layers : kv_caches[i].seq_len = 0

\* ------------------------------------------------------------------
\* sample_token, continued

\* C29: with at least one finite logit, the returned id is never one whose
\* logit the top-k step set to -inf.
NeverReturnsFiltered ==
    (smp.pc = "done" /\ FiniteIds(smp.orig) # {}) =>
        ~(smp.scaled[smp.result] # NINF /\ smp.filtered[smp.result] = NINF)

\* ------------------------------------------------------------------
\* load_gguf, continued

Projections ==
    { Str_model_layers \o Decimal(i) \o sfx :
          i \in 0..(num_hidden_layers(gg.metadata) - 1), sfx \in ScaleSuffixes }

\* the scale names the I2_S tensors of the directory are uploaded under
I2sScaleNamesOfFile ==
    { Replace(remap_gguf_name(gg.tensors[k].name), Str_weight, Str_weight_scale) :
          k \in {j \in DOMAIN gg.tensors :
                     gg.tensors[j].tensor_type = GGML_TYPE_I2_S} }

\* C21: after load_gguf succeeds the store holds a weight_scale entry for
\* every layer below num_hidden_layers and each of its seven projections and
\* for lm_head; no name uploaded from an I2_S tensor's trailing scale holds a
\* synthesized all-ones buffer; nothing is synthesized before the last
\* container tensor is uploaded.
ScalesCompleteAndKept ==
    /\ gg.load_result = "ok" =>
           /\ Projections \cup {Str_lm_head_weight_scale} \subseteq gg.returned
           /\ gg.ones \cap I2sScaleNamesOfFile = {}
    /\ gg.ones # {} => (gg.pc = "done" /\ gg.i > Len(gg.tensors))

\* a file with an I2_S projection: its scale is kept, the others are ones
ScalesCompleteAndKeptWitness ==
    /\ gg.load_result = "ok"
    /\ I2sScaleNamesOfFile # {}
    /\ I2sScaleNamesOfFile \subseteq Projections
    /\ gg.ones # {}
    /\ Str_lm_head_weight_scale \in gg.ones

\* ------------------------------------------------------------------
\* WeightStore and PipelineManager

RECURSIVE ShardBytes(_)
ShardBytes(shards) ==
    IF shards = <<>> THEN <<>>
    ELSE Head(shards).bytes \o ShardBytes(Tail(shards))

\* C22: after upload_sharded(name, bytes, max_binding_size) has returned with
\* len(bytes) > max_binding_size, whatever the store held before, the shards
\* stored under name.shard_0, name.shard_1, ... each hold at most
\* max_binding_size bytes, their concatenation in index order is bytes, and
\* get(name) is the buffer get(name.shard_0) stored by this call.
ShardsAndAlias ==
    (ws.pc = "ready" /\ ws.last.op = "upload_sharded"
        /\ Len(ws.last.data) > ws.last.max) =>
        /\ \A k \in DOMAIN ws.last.shards :
               /\ has(ws, shard_name(ws.last.name, k - 1))
               /\ get(ws, shard_name(ws.last.name, k - 1)).id = ws.last.shards[k].id
               /\ Len(ws.last.shards[k].bytes) <= ws.last.max
        /\ ShardBytes(ws.last.shards) = ws.last.data
        /\ has(ws, ws.last.name)
        /\ get(ws, ws.last.name).id = ws.last.shards[1].id

\* C23: since the last clear(), two get_or_create calls were served the same
\* entry exactly when logical name, entry point and specialization constants
\* all agree, and the entry served was compiled for the entry point asked;
\* after clear() the cache is empty.
MemoizedByAllThree ==
    /\ pm.pc = "ready" =>
           \A a, b \in pm.served :
               (a.id = b.id) <=>
                   (a.key = b.key /\ a.entry_point = b.entry_point
                       /\ a.constants = b.constants)
    /\ (pm.pc = "ready" /\ pm.last.op = "get_or_create") =>
           pm.last.entry.entry_point = pm.last.entry_point
    /\ (pm.pc = "ready" /\ pm.last.op = "clear") => pm.cache = <<>>

\* ------------------------------------------------------------------
\* BitNetModel::build and forward

\* the tensors C24 calls required
RequiredTensors ==
    {N_embed_tokens, N_norm}
        \cup {layer_name(i, LayerRequired[k]) :
                  i \in LayerIndices, k \in DOMAIN LayerRequired}
        \cup (IF bm.config.tie_word_embeddings THEN {} ELSE {N_lm_head})

OptionalTensors ==
    {layer_name(i, GateRequired[1]) : i \in LayerIndices}
        \cup {layer_name(i, sfx) : i \in LayerIndices, sfx \in SubNorms}

\* C24: build returns MissingWeight(name), name an absent required tensor,
\* and no model whenever a required tensor is absent from the store (lm_head
\* .weight being required when the embeddings are not tied); it never fails
\* over an absent gate_proj weight or sub_norm.
MissingRequiredFails ==
    bm.pc \notin {"none", "build"} =>
        /\ ~(RequiredTensors \subseteq bm.store) =>
               /\ bm.result = "MissingWeight"
               /\ bm.missing \in RequiredTensors \ bm.store
               /\ bm.model = <<>>
        /\ bm.result = "MissingWeight" => bm.missing \notin OptionalTensors

\* C26: in one forward over N tokens entered with cache length P, every
\* layer that has run was handed its own cache, used P as the RoPE offset of
\* Q and of K, wrote its N rows at token offset P and attended over P + N
\* positions.
LayersSeeEntryLength ==
    bm.pc \in {"layers", "ready"} =>
        \A i \in Layers :
            bm.observed[i] # NoObserved =>
                /\ bm.observed[i].cache = i
                /\ bm.observed[i].rope_q = bm.p
                /\ bm.observed[i].rope_k = bm.p
                /\ bm.observed[i].write_at = bm.p
                /\ bm.observed[i].rows = bm.n
                /\ bm.observed[i].total_seq = bm.p + bm.n

\* a decode-like forward on a non-empty cache has run through every layer
LayersSeeEntryLengthWitness ==
    /\ bm.pc = "ready"
    /\ bm.forwards >= 2
    /\ bm.p >= 1
    /\ bm.n >= 1
    /\ \A i \in Layers : bm.observed[i] # NoObserved
    /\ bm.observed[NumLayers].total_seq = bm.p + bm.n

NormCount(norms, w) == Cardinality({k \in DOMAIN norms : norms[k] = w})

\* C27: with a separate LM head, after a forward, the head applied a
\* pre-norm only if the store has lm_head.input_norm.weight, and without that
\* tensor the final RMSNorm weight was applied exactly once between the last
\* layer's output and the LM-head matmul.
HeadNormOnce ==
    (bm.pc = "ready" /\ bm.forwards > 0 /\ bm.model.lm_head = "Separate") =>
        /\ Len(bm.head_norms) > 1 => N_lm_head_input_norm \in bm.store
        /\ N_lm_head_input_norm \notin bm.store =>
               NormCount(bm.head_norms, N_norm) = 1

====
